---------------------------- MODULE Spec2Model ----------------------------
(***************************************************************************)
(* Model of the gPROMS helper scripts: the variable-record parsers and the *)
(* comparators built on them.                                              *)
(*                                                                         *)
(* Text is modelled as sequences of one-character strings, so that strip,  *)
(* split, find and float() are computed on the characters as the Python    *)
(* code computes them.  A Python dict is a function whose DOMAIN is the    *)
(* set of its keys; None is the empty tuple and a present value v is <<v>>.*)
(*                                                                         *)
(* Floating-point values are fixed-point integers counting units of        *)
(* 10^-UnitExp; the inputs are chosen so that every value and every        *)
(* difference the code computes on them is a whole number of units.        *)
(***************************************************************************)
EXTENDS Integers, Sequences, FiniteSets, TLC

(***************************************************************************)
(* Bounds of the model.                                                    *)
(***************************************************************************)
\* A float is a whole number of units of 10^-UnitExp.
UnitExp == 12
\* Lines read from the first / second CSV file of app.py.
MaxLines1 == 2
MaxLines2 == 2
\* Lines read from each flowsheet CSV file of test.py.
MaxFlowLines == 3
\* Lines of the run dump read by analyse.py.
MaxRunLines == 3
\* The lines of the run dump extract_stage_data reads
MaxStageLines == 3
\* Lines of the run dump that is split into folders and rebuilt.
MaxReconLines == 2
\* Lines of the first / second run file compared by cvap.py.
MaxCvapLines1 == 2
MaxCvapLines2 == 1

(***************************************************************************)
(* Characters and strings.                                                 *)
(***************************************************************************)
\* The characters of the inputs in code-point order (Python compares
\* strings by code point).
Alphabet ==
  << " ", "#", "(", ")", "+", ",", "-", ".",
     "0", "1", "2", "3", "4", "5", "6", "7", "8", "9", ":",
     "A", "B", "C", "D", "E", "F", "G", "H", "I", "J", "K", "L", "M",
     "N", "O", "P", "Q", "R", "S", "T", "U", "V", "W", "X", "Y", "Z", "_",
     "a", "b", "c", "d", "e", "f", "g", "h", "i", "j", "k", "l", "m",
     "n", "o", "p", "q", "r", "s", "t", "u", "v", "w", "x", "y", "z" >>

Ord(c) == CHOOSE i \in 1..Len(Alphabet) : Alphabet[i] = c

UpperChars == {Alphabet[i] : i \in 20..45}

\* str.lower() on one character: the lower-case letters follow the
\* upper-case ones and "_" in Alphabet.
LowerChar(c) == IF c \in UpperChars THEN Alphabet[Ord(c) + 27] ELSE c

LowerStr(s) == [i \in 1..Len(s) |-> LowerChar(s[i])]

Whitespace == {" ", "\t", "\n", "\r"}

RECURSIVE LStrip(_)
LStrip(s) ==
  IF s # <<>> /\ Head(s) \in Whitespace THEN LStrip(Tail(s)) ELSE s

RECURSIVE RStrip(_)
RStrip(s) ==
  IF s # <<>> /\ s[Len(s)] \in Whitespace
  THEN RStrip(SubSeq(s, 1, Len(s) - 1))
  ELSE s

\* str.strip()
Strip(s) == RStrip(LStrip(s))

\* str.find(c) for a single character: the 0-based index of the first
\* occurrence, -1 when there is none.
Find(s, c) ==
  IF \E i \in 1..Len(s) : s[i] = c
  THEN (CHOOSE i \in 1..Len(s) : s[i] = c /\ \A j \in 1..(i - 1) : s[j] # c) - 1
  ELSE -1

\* c in s
Contains(s, c) == \E i \in 1..Len(s) : s[i] = c

\* s.startswith(p)
StartsWith(s, p) == Len(p) <= Len(s) /\ SubSeq(s, 1, Len(p)) = p

\* s.split(c) for a single-character separator: always at least one part.
RECURSIVE Split(_, _)
Split(s, c) ==
  LET p == Find(s, c)
  IN  IF p = -1
      THEN << s >>
      ELSE << SubSeq(s, 1, p) >> \o Split(SubSeq(s, p + 2, Len(s)), c)

\* (parts + [""] * n)[:n]
Pad(parts, n) ==
  [i \in 1..n |-> IF i <= Len(parts) THEN parts[i] ELSE <<>>]

\* s < t in Python's string order
RECURSIVE StrLess(_, _)
StrLess(s, t) ==
  IF t = <<>> THEN FALSE
  ELSE IF s = <<>> THEN TRUE
  ELSE IF Head(s) # Head(t) THEN Ord(Head(s)) < Ord(Head(t))
  ELSE StrLess(Tail(s), Tail(t))

\* sorted(S) for a set of strings
RECURSIVE Sorted(_)
Sorted(S) ==
  IF S = {} THEN <<>>
  ELSE LET m == CHOOSE x \in S : \A y \in S \ {x} : StrLess(x, y)
       IN  << m >> \o Sorted(S \ {m})

\* sep.join(parts)
RECURSIVE Join(_, _)
Join(parts, sep) ==
  IF parts = <<>> THEN <<>>
  ELSE IF Len(parts) = 1 THEN parts[1]
  ELSE parts[1] \o sep \o Join(Tail(parts), sep)

(***************************************************************************)
(* Numbers.                                                                *)
(***************************************************************************)
None == <<>>
Some(v) == << v >>

Abs(n) == IF n < 0 THEN -n ELSE n

Max2(a, b) == IF a >= b THEN a ELSE b

RECURSIVE Pow10(_)
Pow10(k) == IF k <= 0 THEN 1 ELSE 10 * Pow10(k - 1)

RECURSIVE Gcd(_, _)
Gcd(a, b) == IF b = 0 THEN a ELSE Gcd(b, a % b)

\* The rational n/d (d # 0) in lowest terms with a positive denominator.
Rat(n, d) ==
  LET g == Gcd(Abs(n), Abs(d))
      s == IF d < 0 THEN -1 ELSE 1
  IN  << s * (n \div g), s * (d \div g) >>

Digits == {"0", "1", "2", "3", "4", "5", "6", "7", "8", "9"}

AllDigits(s) == \A i \in 1..Len(s) : s[i] \in Digits

\* The longest prefix of s made of characters of S
RECURSIVE PrefixIn(_, _)
PrefixIn(s, S) ==
  IF s = <<>> \/ Head(s) \notin S THEN <<>>
  ELSE << Head(s) >> \o PrefixIn(Tail(s), S)

RECURSIVE DigitsToInt(_)
DigitsToInt(s) ==
  IF s = <<>> THEN 0
  ELSE 10 * DigitsToInt(SubSeq(s, 1, Len(s) - 1)) + (Ord(s[Len(s)]) - Ord("0"))

\* s without its trailing zeros: they do not change the value of a fraction
RECURSIVE RStripZeros(_)
RStripZeros(s) ==
  IF s # <<>> /\ s[Len(s)] = "0" THEN RStripZeros(SubSeq(s, 1, Len(s) - 1))
  ELSE s

\* m * 10^e in units of 10^-UnitExp, rounded to the nearest unit.
Scale(m, e) ==
  LET k == e + UnitExp
  IN  IF m = 0 THEN 0
      ELSE IF k >= 0 THEN m * Pow10(k)
      ELSE (2 * m + Pow10(-k)) \div (2 * Pow10(-k))

\* The number of a sign, the digits ip before and fp after the point, and
\* the exponent expV; "err" unless the digits and the exponent are well
\* formed.
FloatOfParts(sgn, ip, fp, expOk, expV) ==
  LET fpz == RStripZeros(fp)
  IN  IF AllDigits(ip) /\ AllDigits(fp) /\ Len(ip) + Len(fp) >= 1 /\ expOk
      THEN [kind |-> "fin",
            val  |-> sgn * Scale(DigitsToInt(ip \o fpz), expV - Len(fpz))]
      ELSE [kind |-> "err", val |-> 0]

\* The mantissa and the exponent's digits: mant is what stands before the
\* e (the whole body when hasExp is false), expo what stands after it.
FloatOfMantExp(sgn, mant, hasExp, expo) ==
  LET eSgn == IF expo # <<>> /\ expo[1] = "-" THEN -1 ELSE 1
      eDig == IF expo # <<>> /\ expo[1] \in {"+", "-"} THEN Tail(expo)
              ELSE expo
      dot  == Find(mant, ".")
  IN  FloatOfParts(sgn,
        IF dot = -1 THEN mant ELSE SubSeq(mant, 1, dot),
        IF dot = -1 THEN <<>> ELSE SubSeq(mant, dot + 2, Len(mant)),
        (~hasExp) \/ (eDig # <<>> /\ AllDigits(eDig)),
        IF hasExp THEN eSgn * DigitsToInt(eDig) ELSE 0)

\* The unsigned body of the text, low its lower-case form
FloatOfBody(sgn, body, low) ==
  LET ePos == Find(low, "e")
  IN  IF low \in { <<"i", "n", "f">>,
                   <<"i", "n", "f", "i", "n", "i", "t", "y">> }
      THEN [kind |-> "inf", val |-> sgn]
      ELSE IF low = <<"n", "a", "n">>
      THEN [kind |-> "nan", val |-> 0]
      ELSE FloatOfMantExp(sgn,
             IF ePos = -1 THEN body ELSE SubSeq(body, 1, ePos),
             ePos # -1,
             IF ePos = -1 THEN <<>> ELSE SubSeq(body, ePos + 2, Len(body)))

\* The stripped text t: an optional sign, then the body
FloatOfStripped(t) ==
  LET signed == t # <<>> /\ t[1] \in {"+", "-"}
      body   == IF signed THEN Tail(t) ELSE t
  IN  FloatOfBody(IF t # <<>> /\ t[1] = "-" THEN -1 ELSE 1, body,
                  LowerStr(body))

\* float(s): [kind |-> "fin", val |-> units], "inf" (val the sign), "nan",
\* or "err" where Python raises ValueError.
\* Grammar: [sign] (digits [. digits] | . digits) [(e|E) [sign] digits],
\* or inf / infinity / nan in any case, surrounded by optional whitespace.
ParseFloat(s) == FloatOfStripped(Strip(s))


\* The decimal digits of n >= 0
RECURSIVE IntToDigits(_)
IntToDigits(n) ==
  IF n < 10 THEN << Alphabet[Ord("0") + n] >>
  ELSE IntToDigits(n \div 10) \o << Alphabet[Ord("0") + (n % 10)] >>

\* n copies of "0"
Zeros(n) == [i \in 1..n |-> "0"]

\* e+XX, e-XX: the exponent of a float in text, two digits at least
ExpText(e) ==
  << "e", IF e < 0 THEN "-" ELSE "+" >>
    \o (IF Abs(e) < 10 THEN << "0" >> ELSE << >>) \o IntToDigits(Abs(e))

\* The significant digits of m > 0 units (no trailing zeros) and the
\* decimal exponent of the first of them
SigDigits(m) == RStripZeros(IntToDigits(m))
DecExp(m) == Len(IntToDigits(m)) - 1 - UnitExp

\* str(x) of a float x = float(s), as f"{val}" writes it: the shortest
\* digits that give x back, in fixed notation when the exponent is in
\* -4..15 and in exponent notation otherwise.
FloatRepr(x) ==
  LET m    == Abs(x.val)
      d    == SigDigits(m)
      e    == DecExp(m)
      sign == IF x.val < 0 THEN << "-" >> ELSE << >>
  IN  IF x.kind = "nan" THEN << "n", "a", "n" >>
      ELSE IF x.kind = "inf" THEN sign \o << "i", "n", "f" >>
      ELSE IF m = 0 THEN << "0", ".", "0" >>
      ELSE IF e < -4 \/ e > 15
      THEN sign \o << d[1] >>
             \o (IF Len(d) > 1 THEN << "." >> \o Tail(d) ELSE << >>)
             \o ExpText(e)
      ELSE IF e < 0
      THEN sign \o << "0", "." >> \o Zeros(-e - 1) \o d
      ELSE IF Len(d) <= e + 1
      THEN sign \o d \o Zeros(e + 1 - Len(d)) \o << ".", "0" >>
      ELSE sign \o SubSeq(d, 1, e + 1) \o << "." >> \o SubSeq(d, e + 2, Len(d))

(***************************************************************************)
(* Input text.  Fields are named so that lines are built as the files      *)
(* hold them: fields joined by the separator.                              *)
(***************************************************************************)
Comma == << "," >>

NameX == << "x" >>
NameY == << "y" >>
NameProfile == << "a", "(", "1", ",", "4", ")" >>
\* A profile record of a column the plots do not show
NameProfile5 == << "a", "(", "2", ",", "5", ")" >>

Tok0       == << "0" >>
Tok0p0     == << "0", ".", "0" >>
Tok1em12   == << "1", "e", "-", "1", "2" >>
Tok2em12   == << "2", "e", "-", "1", "2" >>
Tok3em6    == << "3", "e", "-", "6" >>
Tok3em6p   == << "3", ".", "0", "0", "0", "0", "0", "2", "e", "-", "6" >>
TokNaNish  == << "N", "a", "N", "i", "s", "h" >>
TokSpNaNish == << " ", "N", "a", "N", "i", "s", "h" >>
TokInf     == << "i", "n", "f" >>
TokNan     == << "n", "a", "n" >>
Tok1       == << "1" >>
\* An upper bound the fixed-point numbers can hold
Tok1em3 == << "1", "e", "-", "3" >>
TokT       == << "T" >>
TokU       == << "u" >>
TokPU      == << "(", "u", ")" >>

Csv(fields) == Join(fields, Comma)

StrABSORBENT == << "A", "B", "S", "O", "R", "B", "E", "N", "T" >>
NameAbs  == StrABSORBENT
NameAbs1 == StrABSORBENT \o << "_", "1" >>
NameAbs2 == StrABSORBENT \o << "_", "2" >>
NameZ    == << "z" >>

Tok2em8  == << "2", "e", "-", "8" >>
Tok3em8  == << "3", "e", "-", "8" >>
Tok5em8  == << "5", "e", "-", "8" >>
Tok5p5em8 == << "5", ".", "5", "e", "-", "8" >>
Tok7em8  == << "7", "e", "-", "8" >>

\* Lines the flowsheet CSV files of test.py are made of.  The values of
\* the ABSORBENT keys are finite; z may hold nan or an infinity.
FlowLines ==
  { Csv(<< NameAbs1, Tok2em8 >>),
    Csv(<< NameAbs1, Tok5em8 >>),
    Csv(<< NameAbs2, Tok3em8 >>),
    Csv(<< NameAbs2, Tok7em8 >>),
    Csv(<< NameAbs, Tok5em8 >>),
    Csv(<< NameAbs, Tok5p5em8, TokU >>),
    Csv(<< NameZ, Tok2em8 >>),
    Csv(<< NameZ, Tok0 >>),
    Csv(<< NameZ, TokNaNish >>),
    Csv(<< NameZ, TokNan >>),
    Csv(<< NameZ, TokInf >>),
    NameZ }

\* Lines the first CSV file of app.py is made of.
Lines1 ==
  { Csv(<< NameX, Tok0 >>),
    Csv(<< NameX, Tok3em6 >>),
    Csv(<< NameX, TokSpNaNish >>),
    Csv(<< NameY, TokNaNish >>),
    Csv(<< NameProfile, Tok1em12, Tok0, Tok1, TokT, TokU >>),
    Csv(<< NameProfile, TokNaNish >>),
    Csv(<< NameProfile5, Tok3em6 >>),
    Csv(<< NameY, Tok0, Tok0, Tok1, TokT, TokPU >>),
    NameProfile,
    << "#" >> \o Csv(<< NameX, Tok0 >>),
    << >>,
    NameX }

\* Lines the second CSV file of app.py is made of.
Lines2 ==
  { Csv(<< NameX, Tok0p0 >>),
    Csv(<< NameX, Tok1em12 >>),
    Csv(<< NameX, Tok2em12 >>),
    Csv(<< NameX, Tok3em6p >>),
    Csv(<< NameX, TokNaNish >>),
    Csv(<< NameX, TokInf >>),
    Csv(<< NameX, Tok0 >>),
    Csv(<< NameY, TokNaNish >>),
    Csv(<< NameProfile, Tok1em12 >>) }

(***************************************************************************)
(* analysis/scripts/app.py                                                 *)
(***************************************************************************)
VARIABLES
  pc,       \* the script that runs and the step of it that runs next
  lineNo,   \* the number of lines read from the file being parsed
  \* analysis/scripts/app.py
  line,     \* the line read last, as the file holds it (app.py, test.py)
  d1, d2,   \* the mappings parse_variables_csv returns
  tolArgs,  \* --abs-tol and --rel-tol as given, None when omitted
  tol,      \* <<abs_tol, rel_tol>> passed to compare_dicts
  diffs,    \* the rows compare_dicts returns
  counts,   \* the summary counts compare_dicts returns
  profiles1, profiles2,  \* what plot_absorption_profiles extracts of d1, d2
  swapped,  \* the rows compare_dicts returns for d2 and d1, in that order
  \* analysis/scripts/test.py
  flow1, flow2,  \* d1, d2 of main(): what read_flowsheet_csv returns
  comps,    \* the rows build_comparisons returns
  \* scripts/analyse.py
  runFile,      \* the lines of the run dump at file_path
  path_prefix,  \* the path_prefix argument, None when omitted
  values_dict,  \* what read_all_values_from_txt returns
  folder_data,  \* organize_values_to_folders: the rows of each folder
  specific_data,  \* organize_specific_path: the rows of each folder
  files_created, \* what organize_values_to_folders returns
  warnings,     \* the warnings printed: <<value_str, path_name>> each
  \* analysis/scripts/co2_equilibrium.py
  stage_data,   \* what extract_stage_data returns
  \* scripts/analyse.py, scripts/concatenate.py, scripts/concatenateV2.py
  csv_files,      \* the variables.csv of each folder: its lines
  all_variables,  \* what read_csv_files / read_csv_in_folder_order returns
  orderFile,      \* good_order.txt: whether it exists, and its lines
  txt_rows,       \* the variable rows write_txt_file has written
  header_count,   \* the number of variables its header states, None before
  \* the file system and the console
  missing,        \* the input files and folders that do not exist
  created,        \* the output directories and files created
  printed,        \* the diagnostics printed about missing inputs
  raised,         \* the exceptions that propagated to a function's caller
  \* analysis/scripts/cvap.py
  run1, run2,        \* the lines of the two run files
  values1, values2,  \* what extract_all_variables returns for each
  single1, single2,  \* what extract_variable_from_run returns, by variable
  cvap_rows          \* the rows write_comparison_csv has written

appVars ==
  << line, d1, d2, tolArgs, tol, diffs, counts, profiles1, profiles2, swapped >>
flowVars == << flow1, flow2, comps >>
runVars == << runFile, path_prefix, values_dict, folder_data, specific_data,
              files_created, warnings >>

stageVars == << stage_data >>

reconVars == << csv_files, all_variables, orderFile, txt_rows, header_count >>

\* The variables of the scripts modelled after analyse.py
ioVars == << missing, created, printed >>

cvapVars == << run1, run2, values1, values2, single1, single2, cvap_rows >>

\* The variables a parsing or comparing step leaves alone
otherVars == << stageVars, reconVars, ioVars, cvapVars >>

newVars == << otherVars, raised >>

\* The variables of co2_equilibrium.py when it does not run.
StageIdle == stage_data = << >>

NoOrderFile == [exists |-> FALSE, lines |-> << >>]

\* The variables of the reconstruction before anything is written or read.
ReconIdle ==
  /\ csv_files = << >>
  /\ all_variables = << >>
  /\ orderFile = NoOrderFile
  /\ txt_rows = << >>
  /\ header_count = None

\* Every input exists, nothing is created or printed yet.
IoIdle ==
  /\ missing = {}
  /\ created = {}
  /\ printed = {}
  /\ raised = {}

\* Before a script runs: any of its inputs may be missing.
IoStart(inputs) ==
  /\ missing \in SUBSET inputs
  /\ created = {}
  /\ printed = {}
  /\ raised = {}

\* An output: the file called name in the folder dir of the output
\* directory (dir is the sequence of the folder's components); the folder
\* itself when name is empty.
Output(dir, name) == [dir |-> dir, name |-> name]

\* The variables of cvap.py when it does not run.
CvapIdle ==
  /\ run1 = << >>
  /\ run2 = << >>
  /\ values1 = << >>
  /\ values2 = << >>
  /\ single1 = << >>
  /\ single2 = << >>
  /\ cvap_rows = << >>

NewIdle == StageIdle /\ ReconIdle /\ IoIdle /\ CvapIdle

\* The variables of analyse.py when it does not run.
RunIdle ==
  /\ runFile = << >>
  /\ path_prefix = << >>
  /\ values_dict = << >>
  /\ folder_data = << >>
  /\ specific_data = << >>
  /\ files_created = << >>
  /\ warnings = << >>

\* The variables of test.py before main() has run.
FlowIdle ==
  /\ flow1 = << >>
  /\ flow2 = << >>
  /\ comps = << >>

\* d[k] = v on a dict
Put(d, k, v) == [x \in DOMAIN d \cup {k} |-> IF x = k THEN v ELSE d[x]]

\* d.get(k): None when k is no key
Get(d, k) == IF k \in DOMAIN d THEN Some(d[k]) ELSE None

EmptyDict == [x \in {} |-> None]

StripAll(parts) == [i \in 1..Len(parts) |-> Strip(parts[i])]

\* The fields parse_variables_csv reads off one line: skip is TRUE where
\* the code continues with the next line without storing anything.
CsvFields(raw) ==
  LET ln == Strip(raw)
      no == [skip |-> TRUE, name |-> <<>>, f |-> << >>]
  IN  IF ln = <<>> THEN no
      ELSE IF Contains(ln, "(") /\ Contains(ln, ")")
      THEN LET paren_end == Find(ln, ")")
               name  == SubSeq(ln, 1, paren_end + 1)
               rest0 == SubSeq(ln, paren_end + 2, Len(ln))
               rest  == IF StartsWith(rest0, Comma) THEN Tail(rest0) ELSE rest0
               parts == Split(rest, ",")
           IN  IF Len(parts) >= 1
               THEN [skip |-> FALSE, name |-> name,
                     f |-> StripAll(Pad(parts, 5))]
               ELSE no
      ELSE LET parts == Split(ln, ",")
           IN  IF Len(parts) < 2 THEN no
               ELSE LET p == StripAll(Pad(parts, 6))
                    IN  [skip |-> FALSE, name |-> p[1], f |-> Tail(p)]

\* The exception classes the scripts can meet; `except Exception` handles
\* all of them.
AllExceptions ==
  {"ValueError", "IndexError", "KeyError", "TypeError", "ZeroDivisionError"}

\* What float(s) raises
FloatRaises(s) == IF ParseFloat(s).kind = "err" THEN {"ValueError"} ELSE {}

\* What unpacking a list of n items into k names raises
UnpackRaises(n, k) == IF n # k THEN {"ValueError"} ELSE {}

\* The exceptions that leave one iteration of the loop of
\* parse_variables_csv: the unpacking of the padded fields is not guarded,
\* float(val_str) stands in a try with `except Exception`.
ParseVariablesCsvRaises(raw) ==
  LET c == CsvFields(raw)
  IN  IF c.skip THEN {}
      ELSE UnpackRaises(Len(c.f), 5)
             \cup (IF c.name = <<>> THEN {}
                   ELSE FloatRaises(c.f[1]) \ AllExceptions)

\* num: float(val_str), None when it raises or is not finite
ValueNum(val_str) ==
  LET r == ParseFloat(val_str)
  IN  IF r.kind = "fin" THEN Some(r.val) ELSE None

\* ParseVariablesCsvLine with a record dropped when its value is no number.
ParseVariablesCsvLineDropBad(vars_dict, raw, i) ==
  LET c == CsvFields(raw)
  IN  IF c.skip \/ c.name = <<>> \/ ValueNum(c.f[1]) = None THEN vars_dict
      ELSE Put(vars_dict, c.name,
               [value_str   |-> c.f[1],
                value_num   |-> ValueNum(c.f[1]),
                lower       |-> c.f[2],
                upper       |-> c.f[3],
                type        |-> c.f[4],
                units       |-> c.f[5],
                source_line |-> i])

\* One iteration of the loop of parse_variables_csv over line number i.
ParseVariablesCsvLine(vars_dict, raw, i) ==
  LET c == CsvFields(raw)
  IN  IF c.skip \/ c.name = <<>> THEN vars_dict
      ELSE Put(vars_dict, c.name,
               [value_str   |-> c.f[1],
                value_num   |-> ValueNum(c.f[1]),
                lower       |-> c.f[2],
                upper       |-> c.f[3],
                type        |-> c.f[4],
                units       |-> c.f[5],
                source_line |-> i])

\* tiny = 1e-300 lies below the resolution of the model: as a rational
\* number of units it is any positive value less than one unit.
Tiny == << 1, 2 >>

\* p <= q for rationals with positive denominators
RatLeq(p, q) == p[1] <= (q[1] * p[2]) \div q[2]

\* The defaults of --abs-tol and --rel-tol: 1e-12 and 1e-6.
DefaultTol == << Scale(1, -12), Rat(1, Pow10(6)) >>

\* --abs-tol and --rel-tol on the command line: omitted, zero, negative
\* (argparse takes any float).
TolArgs == { None, << 0, Rat(0, 1) >>, << Scale(-1, -12), Rat(-1, Pow10(6)) >> }

\* args.abs_tol, args.rel_tol
ArgsTol(given) == IF given = None THEN DefaultTol ELSE given

\* NumericDiff with both tolerances required instead of either.
NumericDiffBoth(n1, n2, abs_tol, rel_tol) ==
  LET abs_diff == Abs(n1 - n2)
      m        == Max2(Abs(n1), Abs(n2))
      denom    == IF m * Tiny[2] >= Tiny[1] THEN << m, 1 >> ELSE Tiny
      rel_diff == Rat(abs_diff * denom[2], denom[1])
      in_tol   == (abs_diff <= abs_tol) /\ RatLeq(rel_diff, rel_tol)
  IN  [abs_diff |-> abs_diff, denom |-> denom, rel_diff |-> rel_diff,
       in_tol |-> in_tol]

\* NumericDiff with the difference relative to the first number alone.
NumericDiffOfFirst(n1, n2, abs_tol, rel_tol) ==
  LET abs_diff == Abs(n1 - n2)
      m        == Abs(n1)
      denom    == IF m * Tiny[2] >= Tiny[1] THEN << m, 1 >> ELSE Tiny
      rel_diff == Rat(abs_diff * denom[2], denom[1])
      in_tol   == (abs_diff <= abs_tol) \/ RatLeq(rel_diff, rel_tol)
  IN  [abs_diff |-> abs_diff, denom |-> denom, rel_diff |-> rel_diff,
       in_tol |-> in_tol]

\* abs_diff, denom, rel_diff and in_tol of the numeric branch
NumericDiff(n1, n2, abs_tol, rel_tol) ==
  LET abs_diff == Abs(n1 - n2)
      m        == Max2(Abs(n1), Abs(n2))
      denom    == IF m * Tiny[2] >= Tiny[1] THEN << m, 1 >> ELSE Tiny
      rel_diff == Rat(abs_diff * denom[2], denom[1])
      in_tol   == (abs_diff <= abs_tol) \/ RatLeq(rel_diff, rel_tol)
  IN  [abs_diff |-> abs_diff, denom |-> denom, rel_diff |-> rel_diff,
       in_tol |-> in_tol]

\* StringEqual decided on the parsed numbers instead of the strings.
StringEqualByNum(a, b) == a.value_num = b.value_num

\* equal of the non-numeric branch: the value strings, stripped, are equal
StringEqual(a, b) == Strip(a.value_str) = Strip(b.value_str)

\* The row compare_dicts builds for key k.  An empty cell is the empty
\* string; abs_diff and rel_diff cells hold the number that is formatted.
CompareRow(k, a1, a2, abs_tol, rel_tol) ==
  LET a == Get(a1, k)
      b == Get(a2, k)
  IN  IF a = None
      THEN [variable |-> k, status |-> "only_in_2",
            value1 |-> <<>>, value2 |-> b[1].value_str,
            abs_diff |-> <<>>, rel_diff |-> <<>>, in_tolerance |-> "false",
            type1 |-> <<>>, type2 |-> b[1].type,
            units1 |-> <<>>, units2 |-> b[1].units]
      ELSE IF b = None
      THEN [variable |-> k, status |-> "only_in_1",
            value1 |-> a[1].value_str, value2 |-> <<>>,
            abs_diff |-> <<>>, rel_diff |-> <<>>, in_tolerance |-> "false",
            type1 |-> a[1].type, type2 |-> <<>>,
            units1 |-> a[1].units, units2 |-> <<>>]
      ELSE LET n1 == a[1].value_num
               n2 == b[1].value_num
               base == [variable |-> k,
                        value1 |-> a[1].value_str, value2 |-> b[1].value_str,
                        type1 |-> a[1].type, type2 |-> b[1].type,
                        units1 |-> a[1].units, units2 |-> b[1].units]
           IN  IF n1 # None /\ n2 # None
               THEN LET nd == NumericDiff(n1[1], n2[1], abs_tol, rel_tol)
                    IN  base @@
                        [abs_diff |-> Some(nd.abs_diff),
                         rel_diff |-> Some(nd.rel_diff),
                         in_tolerance |-> IF nd.in_tol THEN "true" ELSE "false",
                         status |-> IF nd.in_tol THEN "equal_within_tol"
                                                 ELSE "different"]
               ELSE LET equal == StringEqual(a[1], b[1])
                    IN  base @@
                        [abs_diff |-> <<>>, rel_diff |-> <<>>,
                         in_tolerance |-> IF equal THEN "true" ELSE "false",
                         status |-> IF equal THEN "equal_within_tol"
                                             ELSE "different"]

\* The exceptions that leave compare_dicts: abs_diff / denom divides by
\* zero when denom is zero.
CompareDictsRaises(a1, a2, abs_tol, rel_tol) ==
  UNION { IF /\ a1[k].value_num # None
             /\ a2[k].value_num # None
             /\ NumericDiff(a1[k].value_num[1], a2[k].value_num[1],
                            abs_tol, rel_tol).denom[1] = 0
          THEN {"ZeroDivisionError"} ELSE {} :
          k \in DOMAIN a1 \cap DOMAIN a2 }

\* CompareKeys with the keys of the second mapping forgotten.
CompareKeysLeftOnly(a1, a2) == Sorted(DOMAIN a1)

\* keys = sorted(set(d1.keys()) | set(d2.keys()))
CompareKeys(a1, a2) == Sorted(DOMAIN a1 \cup DOMAIN a2)

\* diffs of compare_dicts: one row per key, in the order of keys
CompareDiffs(a1, a2, abs_tol, rel_tol) ==
  LET keys == CompareKeys(a1, a2)
  IN  [j \in 1..Len(keys) |-> CompareRow(keys[j], a1, a2, abs_tol, rel_tol)]

Statuses == {"only_in_1", "only_in_2", "equal_within_tol", "different"}

\* CountedStatus with the rows compared as strings left uncounted.
CountedStatusNumericOnly(k, a1, a2, abs_tol, rel_tol) ==
  IF k \notin DOMAIN a1 THEN "only_in_2"
  ELSE IF k \notin DOMAIN a2 THEN "only_in_1"
  ELSE IF a1[k].value_num # None /\ a2[k].value_num # None
  THEN (IF NumericDiff(a1[k].value_num[1], a2[k].value_num[1],
                       abs_tol, rel_tol).in_tol
        THEN "equal_within_tol" ELSE "different")
  ELSE "none"

\* The counter compare_dicts increments for key k: each branch of the loop
\* body increments one.
CountedStatus(k, a1, a2, abs_tol, rel_tol) ==
  IF k \notin DOMAIN a1 THEN "only_in_2"
  ELSE IF k \notin DOMAIN a2 THEN "only_in_1"
  ELSE IF a1[k].value_num # None /\ a2[k].value_num # None
  THEN (IF NumericDiff(a1[k].value_num[1], a2[k].value_num[1],
                       abs_tol, rel_tol).in_tol
        THEN "equal_within_tol" ELSE "different")
  ELSE (IF StringEqual(a1[k], a2[k]) THEN "equal_within_tol" ELSE "different")

\* counts of compare_dicts: how often each counter was incremented, once
\* for every key
CompareCounts(a1, a2, abs_tol, rel_tol) ==
  [s \in Statuses |->
     Cardinality({k \in DOMAIN a1 \cup DOMAIN a2 :
                    CountedStatus(k, a1, a2, abs_tol, rel_tol) = s})]

\* The orders in which a set of keys may be iterated
Orders(S) ==
  {o \in [1..Cardinality(S) -> S] : \A i, j \in DOMAIN o : o[i] = o[j] => i = j}

\* pattern_name: the name of the profile records.  The records of the
\* input are named a(stage,column), the short form of
\* a_abs_profile(stage,column).
PatternName == << "a" >>

\* re.match(rf'{pattern_name}\((\d+),(\d+)\)', s): <<stage, column>> of the
\* match at the start of s, None without one.  \d+ takes every digit there
\* is, and giving one back never helps: the next character would be a digit.
ProfileMatchAt(s, pattern_name) ==
  LET open == pattern_name \o << "(" >>
      after == SubSeq(s, Len(open) + 1, Len(s))
      stage == PrefixIn(after, Digits)
      rest == SubSeq(after, Len(stage) + 1, Len(after))
      column == PrefixIn(SubSeq(rest, 2, Len(rest)), Digits)
      last == SubSeq(rest, Len(column) + 2, Len(rest))
  IN  IF /\ StartsWith(s, open)
         /\ stage # <<>>
         /\ StartsWith(rest, << "," >>)
         /\ column # <<>>
         /\ StartsWith(last, << ")" >>)
      THEN Some(<< DigitsToInt(stage), DigitsToInt(column) >>)
      ELSE None

\* re.search(pattern, var_name): the leftmost match
ProfileSearch(var_name, pattern_name) ==
  LET at == {i \in 1..Len(var_name) :
               ProfileMatchAt(SubSeq(var_name, i, Len(var_name)),
                              pattern_name) # None}
  IN  IF at = {} THEN None
      ELSE ProfileMatchAt(SubSeq(var_name,
                                 CHOOSE i \in at : \A j \in at : i <= j,
                                 Len(var_name)), pattern_name)

\* profile_data = {1: {}, 2: {}, 3: {}, 4: {}}
EmptyProfiles == [c \in 1..4 |-> EmptyDict]

\* One iteration of the loop of extract_absorption_profiles_all_columns,
\* with the test on value_num left out.
ExtractProfileAnyValue(profile_data, var_name, var_info, pattern_name) ==
  LET match == ProfileSearch(var_name, pattern_name)
  IN  IF match # None /\ match[1][2] \in {1, 2, 3, 4}
      THEN [profile_data EXCEPT
              ![match[1][2]] = Put(@, match[1][1], var_info.value_num)]
      ELSE profile_data

\* One iteration of the loop of extract_absorption_profiles_all_columns:
\* what is stored is var_info["value_num"], which is not None there.
ExtractProfile(profile_data, var_name, var_info, pattern_name) ==
  LET match == ProfileSearch(var_name, pattern_name)
  IN  IF /\ match # None
         /\ match[1][2] \in {1, 2, 3, 4}
         /\ var_info.value_num # None
      THEN [profile_data EXCEPT
              ![match[1][2]] = Put(@, match[1][1], var_info.value_num)]
      ELSE profile_data

\* extract_absorption_profiles_all_columns(vars_dict, pattern_name), the
\* items of vars_dict taken in the order items
RECURSIVE ExtractProfiles(_, _, _, _)
ExtractProfiles(profile_data, vars_dict, items, pattern_name) ==
  IF items = <<>> THEN profile_data
  ELSE ExtractProfiles(ExtractProfile(profile_data, Head(items),
                                      vars_dict[Head(items)], pattern_name),
                       vars_dict, Tail(items), pattern_name)

\* The variables of app.py before main() has run.
AppIdle ==
  /\ line = <<>>
  /\ d1 = EmptyDict
  /\ d2 = EmptyDict
  /\ tolArgs = None
  /\ tol = DefaultTol
  /\ diffs = <<>>
  /\ counts = [s \in Statuses |-> 0]
  /\ profiles1 = EmptyProfiles
  /\ profiles2 = EmptyProfiles
  /\ swapped = <<>>

InitApp ==
  /\ pc = "parse1"
  /\ lineNo = 0
  /\ AppIdle
  /\ FlowIdle
  /\ RunIdle
  /\ NewIdle

\* parse_variables_csv(args.file1) reads its next line
ReadLine1 ==
  /\ pc = "parse1"
  /\ lineNo < MaxLines1
  /\ \E raw \in Lines1 :
       /\ line' = raw
       /\ raised' = raised \cup ParseVariablesCsvRaises(raw)
       /\ IF ParseVariablesCsvRaises(raw) = {}
          THEN /\ d1' = ParseVariablesCsvLine(d1, raw, lineNo + 1)
               /\ pc' = pc
          ELSE /\ d1' = d1
               /\ pc' = "raised"
  /\ lineNo' = lineNo + 1
  /\ UNCHANGED << d2, tolArgs, tol, diffs, counts, profiles1, profiles2, swapped,
                  flowVars, runVars, otherVars >>

\* the first file ends: parse_variables_csv returns d1
EndOfFile1 ==
  /\ pc = "parse1"
  /\ pc' = "parse2"
  /\ lineNo' = 0
  /\ line' = <<>>
  /\ UNCHANGED << d1, d2, tolArgs, tol, diffs, counts, profiles1, profiles2, swapped,
                  flowVars, runVars, newVars >>

\* parse_variables_csv(args.file2) reads its next line
ReadLine2 ==
  /\ pc = "parse2"
  /\ lineNo < MaxLines2
  /\ \E raw \in Lines2 :
       /\ line' = raw
       /\ raised' = raised \cup ParseVariablesCsvRaises(raw)
       /\ IF ParseVariablesCsvRaises(raw) = {}
          THEN /\ d2' = ParseVariablesCsvLine(d2, raw, lineNo + 1)
               /\ pc' = pc
          ELSE /\ d2' = d2
               /\ pc' = "raised"
  /\ lineNo' = lineNo + 1
  /\ UNCHANGED << d1, tolArgs, tol, diffs, counts, profiles1, profiles2, swapped,
                  flowVars, runVars, otherVars >>

\* the second file ends: parse_variables_csv returns d2
EndOfFile2 ==
  /\ pc = "parse2"
  /\ pc' = "plot"
  /\ lineNo' = 0
  /\ line' = <<>>
  /\ UNCHANGED << d1, d2, tolArgs, tol, diffs, counts, profiles1, profiles2, swapped,
                  flowVars, runVars, newVars >>

\* plot_absorption_profiles(d1, d2, ...) extracts the profiles of both
\* mappings.  A mapping is walked in the order its names were first stored
\* in, which the mapping of the model does not keep: every order is tried.
PlotAbsorptionProfiles ==
  /\ pc = "plot"
  /\ \E items1 \in Orders(DOMAIN d1), items2 \in Orders(DOMAIN d2) :
       /\ profiles1' = ExtractProfiles(EmptyProfiles, d1, items1, PatternName)
       /\ profiles2' = ExtractProfiles(EmptyProfiles, d2, items2, PatternName)
  /\ pc' = "compare"
  /\ UNCHANGED << lineNo, line, d1, d2, tolArgs, tol, diffs, counts, swapped,
                  flowVars, runVars, newVars >>

\* diffs, counts = compare_dicts(d1, d2, abs_tol, rel_tol)
CompareDicts ==
  /\ pc = "compare"
  /\ \E given \in TolArgs :
       /\ tolArgs' = given
       /\ tol' = ArgsTol(given)
       /\ raised' = raised \cup CompareDictsRaises(d1, d2, ArgsTol(given)[1],
                                                   ArgsTol(given)[2])
       /\ IF raised' = raised
          THEN /\ diffs' = CompareDiffs(d1, d2, ArgsTol(given)[1],
                                        ArgsTol(given)[2])
               /\ counts' = CompareCounts(d1, d2, ArgsTol(given)[1],
                                          ArgsTol(given)[2])
               /\ pc' = "done"
          ELSE /\ diffs' = diffs
               /\ counts' = counts
               /\ pc' = "raised"
  /\ UNCHANGED << lineNo, line, d1, d2, profiles1, profiles2, swapped,
                  flowVars, runVars, otherVars >>

\* compare_dicts(d2, d1, abs_tol, rel_tol): the same call with the two
\* mappings exchanged, as a second run `app.py file2 file1` makes it
CompareDictsSwapped ==
  /\ pc = "done"
  /\ raised' = raised \cup CompareDictsRaises(d2, d1, tol[1], tol[2])
  /\ IF raised' = raised
     THEN /\ swapped' = CompareDiffs(d2, d1, tol[1], tol[2])
          /\ pc' = "done_swapped"
     ELSE /\ swapped' = swapped
          /\ pc' = "raised"
  /\ UNCHANGED << lineNo, line, d1, d2, tolArgs, tol, diffs, counts,
                  profiles1, profiles2, flowVars, runVars, otherVars >>

NextApp ==
  \/ ReadLine1 \/ EndOfFile1 \/ ReadLine2 \/ EndOfFile2
  \/ PlotAbsorptionProfiles \/ CompareDicts

(***************************************************************************)
(* analysis/scripts/test.py                                                *)
(***************************************************************************)
\* sub in s
ContainsStr(s, sub) ==
  \E i \in 0..(Len(s) - Len(sub)) : SubSeq(s, i + 1, i + Len(sub)) = sub

\* One iteration of the loop of read_flowsheet_csv.  parts[1] raises
\* IndexError on a line without a comma and float() ValueError on a token
\* that is no number: both are caught and the line is skipped.
ReadFlowsheetCsvLine(d, raw) ==
  LET ln == Strip(raw)
      parts == Split(ln, ",")
  IN  IF ln = <<>> THEN d
      ELSE IF Len(parts) < 2 THEN d
      ELSE IF ParseFloat(parts[2]).kind = "err" THEN d
      ELSE Put(d, parts[1], ParseFloat(parts[2]))

\* The floats of test.py, as float() gives them: a finite number of units,
\* an infinity (val is its sign) or nan.
FloatFin(v) == [kind |-> "fin", val |-> v]
FloatNan == [kind |-> "nan", val |-> 0]

\* -a
FloatNeg(a) == [a EXCEPT !.val = -@]

\* a + b
FloatAdd(a, b) ==
  IF a.kind = "nan" \/ b.kind = "nan" THEN FloatNan
  ELSE IF a.kind = "inf" /\ b.kind = "inf"
  THEN (IF a.val = b.val THEN a ELSE FloatNan)
  ELSE IF a.kind = "inf" THEN a
  ELSE IF b.kind = "inf" THEN b
  ELSE FloatFin(a.val + b.val)

\* a - b
FloatSub(a, b) == FloatAdd(a, FloatNeg(b))

\* ReadFlowsheetCsvRaises with `except ValueError` in the place of
\* `except Exception`.
ReadFlowsheetCsvRaisesValueErrorCaught(raw) ==
  LET parts == Split(Strip(raw), ",")
  IN  IF Strip(raw) = <<>> THEN {}
      ELSE (IF Len(parts) < 1 THEN {"IndexError"} ELSE {})
             \cup ((IF Len(parts) < 2 THEN {"IndexError"}
                    ELSE FloatRaises(parts[2])) \ {"ValueError"})

\* The exceptions that leave one iteration of the loop of
\* read_flowsheet_csv: parts[0] is read unguarded, float(parts[1]) stands
\* in a try with `except Exception`.
ReadFlowsheetCsvRaises(raw) ==
  LET parts == Split(Strip(raw), ",")
  IN  IF Strip(raw) = <<>> THEN {}
      ELSE (IF Len(parts) < 1 THEN {"IndexError"} ELSE {})
             \cup ((IF Len(parts) < 2 THEN {"IndexError"}
                    ELSE FloatRaises(parts[2])) \ AllExceptions)

is_absorbent_key(key) == ContainsStr(key, StrABSORBENT)

\* IsClose as exact equality.
IsCloseExact(a, b, rel_tol, abs_tol) == a = b

\* IsClose with the tolerances ignored: any two numbers are close.
IsCloseAlways(a, b, rel_tol, abs_tol) == TRUE

\* math.isclose(a, b, rel_tol, abs_tol) on finite numbers:
\* |a - b| <= max(rel_tol * max(|a|, |b|), abs_tol)
IsClose(a, b, rel_tol, abs_tol) ==
  LET diff == Abs(a - b)
      mx   == Max2(Abs(a), Abs(b))
  IN  diff <= abs_tol \/ diff <= (rel_tol[1] * mx) \div rel_tol[2]

\* math.isclose(a, b, rel_tol, abs_tol): equal floats are close, and
\* an infinity or nan is close to nothing else.
FloatIsClose(a, b, rel_tol, abs_tol) ==
  IF a.kind = "nan" \/ b.kind = "nan" THEN FALSE
  ELSE IF a = b THEN TRUE
  ELSE IF a.kind = "inf" \/ b.kind = "inf" THEN FALSE
  ELSE IsClose(a.val, b.val, rel_tol, abs_tol)

\* The sum of the values of d at the two keys of ks
SumOfTwo(d, ks) ==
  LET a == CHOOSE k \in ks : TRUE
      b == CHOOSE k \in ks \ {a} : TRUE
  IN  FloatAdd(d[a], d[b])

\* match_and_sum_absorbents(d1, d2): results maps a name to
\* <<v1, v2, note>>; consumed1 and consumed2 are read for membership only.
match_and_sum_absorbents(a1, a2) ==
  LET abs1 == {k \in DOMAIN a1 : is_absorbent_key(k)}
      abs2 == {k \in DOMAIN a2 : is_absorbent_key(k)}
      tol8 == Scale(1, -8)
      rel8 == Rat(1, Pow10(8))
      none == [results |-> EmptyDict, consumed1 |-> {}, consumed2 |-> {}]
  IN  IF Cardinality(abs1) = 2 /\ Cardinality(abs2) = 1
      THEN LET sm == SumOfTwo(a1, abs1)
               other_key == CHOOSE k \in abs2 : TRUE
           IN  IF FloatIsClose(sm, a2[other_key], rel8, tol8)
               THEN [results |-> Put(EmptyDict, other_key,
                        << Some(sm), Some(a2[other_key]),
                           "sum of two absorbents in file1 vs single in file2" >>),
                     consumed1 |-> abs1, consumed2 |-> {other_key}]
               ELSE none
      ELSE IF Cardinality(abs2) = 2 /\ Cardinality(abs1) = 1
      THEN LET sm == SumOfTwo(a2, abs2)
               other_key == CHOOSE k \in abs1 : TRUE
           IN  IF FloatIsClose(sm, a1[other_key], rel8, tol8)
               THEN [results |-> Put(EmptyDict, other_key,
                        << Some(a1[other_key]), Some(sm),
                           "single in file1 vs sum of two absorbents in file2" >>),
                     consumed1 |-> {other_key}, consumed2 |-> abs2]
               ELSE none
      ELSE none

\* pct_diff: a rational number of percent, an infinity (q is its sign) or
\* nan
Fin(q) == [inf |-> FALSE, nan |-> FALSE, q |-> q]
Inf == [inf |-> TRUE, nan |-> FALSE, q |-> << 1, 1 >>]
NegInf == [inf |-> TRUE, nan |-> FALSE, q |-> << -1, 1 >>]
NaN == [inf |-> FALSE, nan |-> TRUE, q |-> << 0, 1 >>]

\* abs(v) < 1e-12
FloatIsTiny(v) == v.kind = "fin" /\ Abs(v.val) < Scale(1, -12)

\* (d / v) * 100 for a divisor v that is not zero
FloatPct(d, v) ==
  IF d.kind = "nan" \/ v.kind = "nan" THEN NaN
  ELSE IF d.kind = "inf" /\ v.kind = "inf" THEN NaN
  ELSE IF d.kind = "inf"
  THEN (IF (d.val > 0) = (v.val > 0) THEN Inf ELSE NegInf)
  ELSE IF v.kind = "inf" THEN Fin(<< 0, 1 >>)
  ELSE Fin(Rat(d.val * 100, v.val))

\* abs_diff and pct_diff of two floats
FloatDiffs(x1, x2) ==
  [abs_diff |-> FloatSub(x1, x2),
   pct_diff |-> IF FloatIsTiny(x2)
                THEN (IF FloatSub(x1, x2) # FloatFin(0) THEN Inf
                      ELSE Fin(<< 0, 1 >>))
                ELSE FloatPct(FloatSub(x1, x2), x2)]

\* ComparisonTuple with a missing value read as zero.
ComparisonTupleMissingAsZero(name, v1, v2, note) ==
  [name |-> name, v1 |-> v1, v2 |-> v2,
   abs_diff |-> Some(FloatDiffs(IF v1 = None THEN FloatFin(0) ELSE v1[1],
                                IF v2 = None THEN FloatFin(0) ELSE v2[1]).abs_diff),
   pct_diff |-> Some(FloatDiffs(IF v1 = None THEN FloatFin(0) ELSE v1[1],
                                IF v2 = None THEN FloatFin(0) ELSE v2[1]).pct_diff),
   note |-> note]

\* The tuple build_comparisons appends for name: v1 and v2 are None or a
\* float.
ComparisonTuple(name, v1, v2, note) ==
  IF v1 = None \/ v2 = None
  THEN [name |-> name, v1 |-> v1, v2 |-> v2,
        abs_diff |-> None, pct_diff |-> None, note |-> note]
  ELSE [name |-> name, v1 |-> v1, v2 |-> v2,
        abs_diff |-> Some(FloatDiffs(v1[1], v2[1]).abs_diff),
        pct_diff |-> Some(FloatDiffs(v1[1], v2[1]).pct_diff),
        note |-> note]

\* The exceptions that leave build_comparisons: the division by v2 is
\* reached when abs(v2) < 1e-12 is false, and divides by zero when v2 is
\* zero.
BuildComparisonsRaises(a1, a2) ==
  UNION { IF ~FloatIsTiny(a2[k]) /\ a2[k] = FloatFin(0)
          THEN {"ZeroDivisionError"} ELSE {} :
          k \in DOMAIN a1 \cap DOMAIN a2 }

\* p < q for rationals with positive denominators
RatLess(p, q) == p[1] * q[2] < q[1] * p[2]

\* The sort key of build_comparisons: |pct_diff|, and -1 when it is None or
\* infinite; abs(nan) is nan.
SortKey(t) ==
  IF t.pct_diff # None /\ ~t.pct_diff[1].inf
  THEN [nan |-> t.pct_diff[1].nan,
        q |-> << Abs(t.pct_diff[1].q[1]), t.pct_diff[1].q[2] >>]
  ELSE [nan |-> FALSE, q |-> << -1, 1 >>]

\* key(t) < key(u) on floats: false when either key is nan
KeyLess(t, u) ==
  /\ ~SortKey(t).nan
  /\ ~SortKey(u).nan
  /\ RatLess(SortKey(t).q, SortKey(u).q)

Reverse(ts) == [i \in 1..Len(ts) |-> ts[Len(ts) + 1 - i]]

\* count_run of listsort: the length of the run that starts the list ts
\* of two items or more, the run holding the first i - 1 items so far; a
\* run is strictly descending or else non-descending.
RECURSIVE CountRun(_, _, _)
CountRun(ts, i, descending) ==
  IF i > Len(ts) THEN Len(ts)
  ELSE IF descending = KeyLess(ts[i], ts[i - 1])
  THEN CountRun(ts, i + 1, descending)
  ELSE i - 1

\* The place binarysort finds for pivot among ts[l + 1 .. r], which are
\* in order
RECURSIVE BinarySearch(_, _, _, _)
BinarySearch(ts, pivot, l, r) ==
  IF l >= r THEN l
  ELSE IF KeyLess(pivot, ts[l + (r - l) \div 2 + 1])
  THEN BinarySearch(ts, pivot, l, l + (r - l) \div 2)
  ELSE BinarySearch(ts, pivot, l + (r - l) \div 2 + 1, r)

\* ts with the item at place at + 1 moved to place to + 1
MoveTo(ts, at, to) ==
  SubSeq(ts, 1, to) \o << ts[at + 1] >> \o SubSeq(ts, to + 1, at)
    \o SubSeq(ts, at + 2, Len(ts))

\* binarysort of listsort: the first start items are in order, the others
\* are inserted one by one
RECURSIVE BinarySort(_, _)
BinarySort(ts, start) ==
  IF start >= Len(ts) THEN ts
  ELSE BinarySort(MoveTo(ts, start, BinarySearch(ts, ts[start + 1], 0, start)),
                  start + 1)

\* The list with its first n items reversed when the run is descending
RunInOrder(ts, n, descending) ==
  IF descending THEN Reverse(SubSeq(ts, 1, n)) \o SubSeq(ts, n + 1, Len(ts))
  ELSE ts

\* listsort on a list shorter than 64 items: the first run, then binary
\* insertion
ListSort(ts) ==
  IF Len(ts) < 2 THEN ts
  ELSE BinarySort(RunInOrder(ts, CountRun(ts, 3, KeyLess(ts[2], ts[1])),
                             KeyLess(ts[2], ts[1])),
                  CountRun(ts, 3, KeyLess(ts[2], ts[1])))

\* list.sort(key, reverse=True): the list is reversed, sorted and reversed
\* again.  On keys that are all comparable this is the stable descending
\* order.
SortDescending(ts) == Reverse(ListSort(Reverse(ts)))

RECURSIVE KeyTuples(_, _, _, _)
KeyTuples(order, a1, a2, consumed) ==
  IF order = <<>> THEN <<>>
  ELSE IF Head(order) \in consumed
  THEN KeyTuples(Tail(order), a1, a2, consumed)
  ELSE << ComparisonTuple(Head(order), Get(a1, Head(order)),
                          Get(a2, Head(order)), "") >>
       \o KeyTuples(Tail(order), a1, a2, consumed)

\* build_comparisons(d1, d2), the set of keys iterated in the given order
build_comparisons(a1, a2, order) ==
  LET m   == match_and_sum_absorbents(a1, a2)
      pre == Sorted(DOMAIN m.results)
      special == [j \in 1..Len(pre) |->
                    ComparisonTuple(pre[j], m.results[pre[j]][1],
                                    m.results[pre[j]][2], m.results[pre[j]][3])]
  IN  SortDescending(special \o
        KeyTuples(order, a1, a2, m.consumed1 \cup m.consumed2))

InitFlow ==
  /\ pc = "flow_start"
  /\ lineNo = 0
  /\ AppIdle
  /\ FlowIdle
  /\ RunIdle
  /\ StageIdle
  /\ ReconIdle
  /\ CvapIdle
  /\ IoStart({"file1", "file2"})

\* CheckFlowFiles with the first file checked only
CheckFlowFilesFirstOnly ==
  /\ pc = "flow_start"
  /\ IF "file1" \in missing
     THEN /\ printed' = printed \cup {"ERROR: file1 not found"}
          /\ pc' = "flow_returned"
     ELSE /\ printed' = printed
          /\ pc' = "flow_read1"
  /\ UNCHANGED << cvapVars, lineNo, appVars, flowVars, runVars, stageVars, reconVars,
                  missing, raised, created >>

\* main(): a file that does not exist is reported and main returns
CheckFlowFiles ==
  /\ pc = "flow_start"
  /\ IF "file1" \in missing
     THEN /\ printed' = printed \cup {"ERROR: file1 not found"}
          /\ pc' = "flow_returned"
     ELSE IF "file2" \in missing
     THEN /\ printed' = printed \cup {"ERROR: file2 not found"}
          /\ pc' = "flow_returned"
     ELSE /\ printed' = printed
          /\ pc' = "flow_read1"
  /\ UNCHANGED << cvapVars, lineNo, appVars, flowVars, runVars, stageVars, reconVars,
                  missing, raised, created >>

\* read_flowsheet_csv(f1) reads its next line
ReadFlowLine1 ==
  /\ pc = "flow_read1"
  /\ lineNo < MaxFlowLines
  /\ \E raw \in FlowLines :
       /\ line' = raw
       /\ raised' = raised \cup ReadFlowsheetCsvRaises(raw)
       /\ IF ReadFlowsheetCsvRaises(raw) = {}
          THEN /\ flow1' = ReadFlowsheetCsvLine(flow1, raw)
               /\ pc' = pc
          ELSE /\ flow1' = flow1
               /\ pc' = "raised"
  /\ lineNo' = lineNo + 1
  /\ UNCHANGED << flow2, comps, d1, d2, tolArgs, tol, diffs, counts,
                  profiles1, profiles2, swapped,
                  runVars, otherVars >>

\* the first file ends: read_flowsheet_csv returns d1
EndOfFlow1 ==
  /\ pc = "flow_read1"
  /\ pc' = "flow_read2"
  /\ lineNo' = 0
  /\ line' = <<>>
  /\ UNCHANGED << flowVars, d1, d2, tolArgs, tol, diffs, counts, profiles1,
                  profiles2, swapped, runVars, newVars >>

\* read_flowsheet_csv(f2) reads its next line
ReadFlowLine2 ==
  /\ pc = "flow_read2"
  /\ lineNo < MaxFlowLines
  /\ \E raw \in FlowLines :
       /\ line' = raw
       /\ raised' = raised \cup ReadFlowsheetCsvRaises(raw)
       /\ IF ReadFlowsheetCsvRaises(raw) = {}
          THEN /\ flow2' = ReadFlowsheetCsvLine(flow2, raw)
               /\ pc' = pc
          ELSE /\ flow2' = flow2
               /\ pc' = "raised"
  /\ lineNo' = lineNo + 1
  /\ UNCHANGED << flow1, comps, d1, d2, tolArgs, tol, diffs, counts,
                  profiles1, profiles2, swapped,
                  runVars, otherVars >>

\* the second file ends: read_flowsheet_csv returns d2
EndOfFlow2 ==
  /\ pc = "flow_read2"
  /\ pc' = "flow_compare"
  /\ lineNo' = 0
  /\ line' = <<>>
  /\ UNCHANGED << flowVars, d1, d2, tolArgs, tol, diffs, counts, profiles1,
                  profiles2, swapped, runVars, newVars >>

\* csv_dir, plots_dir = ensure_dirs(args.outdir);
\* comps = build_comparisons(d1, d2); write_csv(out_csv, comps);
\* plot_differences(out_png, comps), which saves the plot when a row has a
\* finite percentage
BuildComparisons ==
  /\ pc = "flow_compare"
  /\ raised' = raised \cup BuildComparisonsRaises(flow1, flow2)
  /\ IF BuildComparisonsRaises(flow1, flow2) = {}
     THEN /\ \E order \in Orders(DOMAIN flow1 \cup DOMAIN flow2) :
               comps' = build_comparisons(flow1, flow2, order)
          /\ created' = created
                   \cup {Output(<< "csv" >>, ""), Output(<< "plots" >>, ""),
                         Output(<< "csv" >>, "flowsheet_comparison.csv")}
                   \cup (IF \E i \in DOMAIN comps' :
                               /\ comps'[i].pct_diff # None
                               /\ ~comps'[i].pct_diff[1].inf
                         THEN {Output(<< "plots" >>, "flowsheet_comparison.png")}
                         ELSE {})
          /\ pc' = "flow_done"
     ELSE /\ comps' = comps
          /\ created' = created
                   \cup {Output(<< "csv" >>, ""), Output(<< "plots" >>, "")}
          /\ pc' = "raised"
  /\ UNCHANGED << cvapVars, lineNo, flow1, flow2, appVars, runVars, stageVars,
                  reconVars, missing, printed >>

NextFlow ==
  \/ CheckFlowFiles
  \/ ReadFlowLine1
  \/ EndOfFlow1
  \/ ReadFlowLine2
  \/ EndOfFlow2
  \/ BuildComparisons

(***************************************************************************)
(* scripts/analyse.py                                                      *)
(***************************************************************************)
NamePa == << "P", ".", "a" >>
NameQb == << "Q", ".", "b" >>
NamePc == << "P", ".", "c" >>
NamePd == << "P", ".", "d" >>
NamePe == << "P", ".", "e" >>
NamePf == << "P", ".", "f" >>
NameG  == << "g" >>

\* PathName : Value : LowerBound : UpperBound : Type : Units
RunLine(fields) == Join(fields, << " ", ":", " " >>)

\* Lines the run dump is made of.
RunLines ==
  { RunLine(<< NamePa, Tok1em12, Tok0, Tok1em3, TokT, TokU >>),
    RunLine(<< NamePa, Tok2em12, Tok0, Tok1em3, TokT, TokU >>),
    RunLine(<< NamePa, TokNaNish, Tok0, Tok1em3, TokT, TokU >>),
    RunLine(<< NameQb, Tok3em6, Tok0, Tok1em3, TokT, TokU >>),
    RunLine(<< NamePc, TokNaNish, Tok0, Tok1em3, TokT, TokU >>),
    << " ", "#" >> \o RunLine(<< NamePd, Tok0, Tok0, Tok1em3, TokT, TokU >>),
    << >>,
    RunLine(<< NamePe, Tok0, Tok0, Tok1em3 >>),
    RunLine(<< NamePf, TokNan, Tok0, Tok1em3, TokT, TokU >>),
    RunLine(<< NameG, Tok0, Tok0, Tok1em3, TokT, TokU >>) }

\* The run dumps: every sequence of at most n of these lines.
RECURSIVE FilesUpTo(_)
FilesUpTo(n) ==
  IF n = 0 THEN { << >> }
  ELSE FilesUpTo(n - 1) \cup
       { f \o << l >> : f \in {g \in FilesUpTo(n - 1) : Len(g) = n - 1},
                        l \in RunLines }

\* The path_prefix arguments: omitted (None, or the empty string, which the
\* code treats alike), a prefix of some paths, a prefix of one path.
PathPrefixes == { None, << "P", "." >>, << "Q" >> }

\* parts = [part.strip() for part in line.split(':')]
ColonParts(ln) == StripAll(Split(ln, ":"))

\* The line is skipped before it is split: blank or a comment.
SkippedLine(ln) == ln = <<>> \/ StartsWith(ln, << "#" >>)

\* ReadAllValuesLine with four fields accepted as a record.
ReadAllValuesLineFourFields(acc, raw, prefix) ==
  LET ln    == Strip(raw)
      parts == ColonParts(ln)
  IN  IF SkippedLine(ln) THEN acc
      ELSE IF Len(parts) >= 4
      THEN IF prefix # <<>> /\ ~StartsWith(parts[1], prefix) THEN acc
           ELSE IF ParseFloat(parts[2]).kind = "err"
           THEN [acc EXCEPT !.warnings = Append(@, << parts[2], parts[1] >>)]
           ELSE [acc EXCEPT !.values = Put(@, parts[1], ParseFloat(parts[2]))]
      ELSE acc

\* One iteration of the loop of read_all_values_from_txt: acc holds
\* values_dict and the warnings printed so far.
ReadAllValuesLine(acc, raw, prefix) ==
  LET ln    == Strip(raw)
      parts == ColonParts(ln)
  IN  IF SkippedLine(ln) THEN acc
      ELSE IF Len(parts) >= 6
      THEN IF prefix # <<>> /\ ~StartsWith(parts[1], prefix) THEN acc
           ELSE IF ParseFloat(parts[2]).kind = "err"
           THEN [acc EXCEPT !.warnings = Append(@, << parts[2], parts[1] >>)]
           ELSE [acc EXCEPT !.values = Put(@, parts[1], ParseFloat(parts[2]))]
      ELSE acc

\* The exceptions that leave the loop of read_all_values_from_txt:
\* float(value_str) stands in a try with `except ValueError`.
ReadAllValuesLoopRaises(file) ==
  UNION { IF SkippedLine(Strip(file[i])) \/ Len(ColonParts(Strip(file[i]))) < 6
          THEN {}
          ELSE FloatRaises(ColonParts(Strip(file[i]))[2]) \ {"ValueError"} :
          i \in 1..Len(file) }

\* The exceptions that leave read_all_values_from_txt: the loop stands in
\* a try with `except Exception`, which prints the error and returns {}.
ReadAllValuesRaises(file) == ReadAllValuesLoopRaises(file) \ AllExceptions

\* read_all_values_from_txt over the first n lines of the file
RECURSIVE ReadAllValues(_, _, _)
ReadAllValues(file, n, prefix) ==
  IF n = 0 THEN [values |-> EmptyDict, warnings |-> << >>]
  ELSE ReadAllValuesLine(ReadAllValues(file, n - 1, prefix), file[n], prefix)

\* folder_data[folder].append(row) on a defaultdict(list)
AppendTo(d, k, row) ==
  Put(d, k, IF k \in DOMAIN d THEN Append(d[k], row) ELSE << row >>)

\* One iteration of the loop of organize_values_to_folders: acc holds
\* folder_data and the warnings printed so far.  A folder is named by the
\* path components below output_base_dir.
OrganizeLine(acc, raw) ==
  LET ln    == Strip(raw)
      parts == ColonParts(ln)
  IN  IF SkippedLine(ln) THEN acc
      ELSE IF Len(parts) >= 6
      THEN IF ParseFloat(parts[2]).kind = "err"
           THEN [acc EXCEPT !.warnings = Append(@, << parts[2], parts[1] >>)]
           ELSE LET path_parts == Split(parts[1], ".")
                IN  IF Len(path_parts) >= 2
                    THEN [acc EXCEPT !.folders =
                            AppendTo(@, SubSeq(path_parts, 1, Len(path_parts) - 1),
                              [Variable   |-> path_parts[Len(path_parts)],
                               Value      |-> ParseFloat(parts[2]),
                               LowerBound |-> parts[3],
                               UpperBound |-> parts[4],
                               Type       |-> parts[5],
                               Units      |-> parts[6]])]
                    ELSE acc
      ELSE acc

\* The reading loop of organize_values_to_folders over the first n lines
RECURSIVE Organize(_, _)
Organize(file, n) ==
  IF n = 0 THEN [folders |-> EmptyDict, warnings |-> << >>]
  ELSE OrganizeLine(Organize(file, n - 1), file[n])

\* The line organize_values_to_folders writes for a row:
\* f"{var},{val},{lower},{upper},{dtype},{units}\n"
CsvRow(row) ==
  Csv(<< row.Variable, FloatRepr(row.Value), row.LowerBound, row.UpperBound,
         row.Type, row.Units >>)

InitRun ==
  /\ pc = "run_start"
  /\ lineNo = 0
  /\ AppIdle
  /\ FlowIdle
  /\ StageIdle
  /\ ReconIdle
  /\ CvapIdle
  /\ IoStart({"file_path"})
  /\ runFile \in (IF missing = {} THEN FilesUpTo(MaxRunLines) ELSE {<< >>})
  /\ path_prefix = None
  /\ values_dict = << >>
  /\ folder_data = << >>
  /\ specific_data = << >>
  /\ files_created = << >>
  /\ warnings = << >>

\* values_dict = read_all_values_from_txt(file_path, path_prefix)
ReadAllValuesFromTxt ==
  /\ pc = "run_start"
  /\ \E prefix \in PathPrefixes :
       /\ path_prefix' = prefix
       /\ IF "file_path" \in missing
          THEN /\ values_dict' = << >>
               /\ warnings' = << >>
               /\ printed' = printed \cup {"File not found"}
          ELSE IF ReadAllValuesLoopRaises(runFile) # {}
          THEN /\ values_dict' = << >>
               /\ warnings' = << >>
               /\ printed' = printed \cup {"Error reading file"}
          ELSE /\ values_dict' = ReadAllValues(runFile, Len(runFile), prefix).values
               /\ warnings' = ReadAllValues(runFile, Len(runFile), prefix).warnings
               /\ printed' = printed
  /\ raised' = raised \cup (IF "file_path" \in missing THEN {}
                            ELSE ReadAllValuesRaises(runFile))
  /\ pc' = IF raised' = raised THEN "run_read" ELSE "raised"
  /\ UNCHANGED << cvapVars, lineNo, runFile, folder_data, specific_data,
                  files_created,
                  appVars, flowVars, stageVars, reconVars, missing, created >>

\* files_created = organize_values_to_folders(file_path, output_base_dir):
\* every folder of folder_data gets a variables.csv of its rows.
OrganizeValuesToFolders ==
  /\ pc = "run_start"
  /\ IF "file_path" \in missing
     THEN /\ folder_data' = << >>
          /\ warnings' = << >>
          /\ printed' = printed \cup {"File not found"}
     ELSE /\ folder_data' = Organize(runFile, Len(runFile)).folders
          /\ warnings' = Organize(runFile, Len(runFile)).warnings
          /\ printed' = printed
  /\ csv_files' =
       [f \in DOMAIN folder_data' |->
          [r \in 1..Len(folder_data'[f]) |-> CsvRow(folder_data'[f][r])]]
  /\ files_created' =
       [f \in DOMAIN folder_data' |-> [variable_count |-> Len(folder_data'[f])]]
  /\ created' = created
                   \cup {Output(f, "") : f \in DOMAIN folder_data'}
                   \cup {Output(f, "variables.csv") : f \in DOMAIN folder_data'}
  /\ pc' = "run_organized"
  /\ UNCHANGED << cvapVars, lineNo, runFile, path_prefix, values_dict,
                  specific_data, appVars, flowVars,
                  stageVars, all_variables, orderFile, txt_rows, header_count,
                  missing, raised >>

\* One iteration of the second loop of organize_specific_path: the row of
\* a line whose path is a key of matching_values, with the value that
\* matching_values holds for the path.
OrganizeSpecificLine(folders, raw, matching_values) ==
  LET ln    == Strip(raw)
      parts == ColonParts(ln)
  IN  IF SkippedLine(ln) THEN folders
      ELSE IF Len(parts) >= 6 /\ parts[1] \in DOMAIN matching_values
      THEN LET path_parts == Split(parts[1], ".")
           IN  IF Len(path_parts) >= 2
               THEN AppendTo(folders, SubSeq(path_parts, 1, Len(path_parts) - 1),
                      [Variable   |-> path_parts[Len(path_parts)],
                       Value      |-> matching_values[parts[1]],
                       LowerBound |-> parts[3],
                       UpperBound |-> parts[4],
                       Type       |-> parts[5],
                       Units      |-> parts[6]])
               ELSE folders
      ELSE folders

\* The second loop of organize_specific_path over the first n lines
RECURSIVE OrganizeSpecific(_, _, _)
OrganizeSpecific(file, n, matching_values) ==
  IF n = 0 THEN EmptyDict
  ELSE OrganizeSpecificLine(OrganizeSpecific(file, n - 1, matching_values),
                            file[n], matching_values)

\* organize_specific_path(file_path, path_prefix, output_base_dir), called
\* on the file organize_values_to_folders has organized:
\* matching_values = read_matching_values_from_txt(file_path, path_prefix),
\* nothing is written when it is empty, and else every folder of
\* folder_data gets a variables.csv of its rows.
OrganizeSpecificPath ==
  /\ pc = "run_organized"
  /\ \E prefix \in PathPrefixes :
       /\ path_prefix' = prefix
       /\ IF "file_path" \in missing
          THEN /\ values_dict' = << >>
               /\ warnings' = warnings
               /\ printed' = printed \cup {"File not found", "No values found"}
          ELSE /\ values_dict' = ReadAllValues(runFile, Len(runFile), prefix).values
               /\ warnings' = warnings
                    \o ReadAllValues(runFile, Len(runFile), prefix).warnings
               /\ printed' = printed
                    \cup (IF values_dict' = EmptyDict
                          THEN {"No values found"} ELSE {})
  /\ specific_data' = OrganizeSpecific(runFile, Len(runFile), values_dict')
  /\ csv_files' =
       [f \in DOMAIN csv_files \cup DOMAIN specific_data' |->
          IF f \in DOMAIN specific_data'
          THEN [r \in 1..Len(specific_data'[f]) |-> CsvRow(specific_data'[f][r])]
          ELSE csv_files[f]]
  /\ files_created' =
       [f \in DOMAIN specific_data' |->
          [variable_count |-> Len(specific_data'[f])]]
  /\ created' = created
                   \cup {Output(f, "") : f \in DOMAIN specific_data'}
                   \cup {Output(f, "variables.csv") : f \in DOMAIN specific_data'}
  /\ pc' = "run_specific"
  /\ UNCHANGED << cvapVars, lineNo, runFile, folder_data, appVars, flowVars,
                  stageVars, all_variables, orderFile, txt_rows, header_count,
                  missing, raised >>

NextRun == ReadAllValuesFromTxt \/ OrganizeValuesToFolders

(***************************************************************************)
(* analysis/scripts/co2_equilibrium.py                                     *)
(***************************************************************************)
\* The paths of REQUIRED_VARIABLES are Plant.Absorber.Stage(<digits>)
\* followed by one of three suffixes.
StrPlantStage ==
  << "P", "l", "a", "n", "t", ".", "A", "b", "s", "o", "r", "b", "e", "r",
     ".", "S", "t", "a", "g", "e", "(" >>
SuffixPressure ==
  << ".", "t", "r", "a", "n", "s", "_", "p", "r", "o", "p", ".", "s", "t",
     "g", "_", "p", "r", "e", "s", "s", "u", "r", "e" >>
SuffixMoleFrac ==
  << ".", "t", "r", "a", "n", "s", "_", "p", "r", "o", "p", ".", "m", "o",
     "l", "e", "_", "f", "r", "a", "c", "_", "v", "a", "p", "(", "\"", "C",
     "O", "2", "\"", ")" >>
SuffixLoading ==
  << ".", "t", "r", "a", "n", "s", "_", "p", "r", "o", "p", ".", "l", "o",
     "a", "d", "i", "n", "g", "_", "C", "O", "2" >>
\* The suffix of the path named by the specification: no trans_prop
SuffixShort ==
  << ".", "l", "o", "a", "d", "i", "n", "g", "_", "C", "O", "2" >>
TokNotype == << "N", "o", "t", "y", "p", "e" >>
TokMolMol == << "m", "o", "l", "/", "m", "o", "l" >>
Tok245em6 == << "2", ".", "4", "5", "e", "-", "4" >>
Tok1sp_em12 == << "1", " ", "e", "-", "1", "2" >>
TokMinus == << "-" >>

\* REQUIRED_VARIABLES: variable name -> the suffix its pattern has after
\* Stage(n)
REQUIRED_VARIABLES ==
  [v \in {"pressure", "co2_mole_frac", "loading_co2"} |->
     CASE v = "pressure"      -> SuffixPressure
       [] v = "co2_mole_frac" -> SuffixMoleFrac
       [] v = "loading_co2"   -> SuffixLoading]

StagePath(n, suffix) == StrPlantStage \o n \o << ")" >> \o suffix

\* VLLE.py: the indices of btpflash_2 and the suffix of the pattern of one
BTPFLASH_INDICES == << 25, 17, 9 >>

BtpflashSuffix(idx) ==
  << ".", "b", "t", "p", "f", "l", "a", "s", "h", "_", "2", "(" >>
    \o IntToDigits(idx) \o << ")" >>

\* Lines the run dump read by extract_stage_data is made of.
StageLines ==
  { RunLine(<< StagePath(<< "3" >>, SuffixLoading), Tok245em6, Tok0, Tok1,
               TokNotype, TokMolMol >>),
    RunLine(<< StagePath(<< "3" >>, SuffixShort), Tok245em6, Tok0, Tok1,
               TokNotype, TokMolMol >>),
    RunLine(<< StagePath(<< "3" >>, SuffixPressure), Tok3em6, Tok0, Tok1,
               TokNotype, TokU >>),
    RunLine(<< StagePath(<< "3" >>, SuffixMoleFrac), Tok1em12, Tok0, Tok1,
               TokNotype, TokU >>),
    RunLine(<< StagePath(<< "3" >>, SuffixLoading), Tok1sp_em12, Tok0, Tok1,
               TokNotype, TokU >>),
    RunLine(<< StagePath(<< "3" >>, SuffixLoading), TokMinus, Tok0, Tok1,
               TokNotype, TokU >>),
    RunLine(<< StagePath(<< "3" >>, SuffixLoading), TokNan, Tok0, Tok1,
               TokNotype, TokU >>),
    << "#" >> \o StagePath(<< "3" >>, SuffixLoading) \o << " ", ":", " ", "0" >>,
    << >>,
    RunLine(<< StagePath(<< "3" >>, BtpflashSuffix(25)), Tok3em6, Tok0, Tok1,
               TokNotype, TokU >>),
    RunLine(<< StagePath(<< "3" >>, BtpflashSuffix(25)), TokMinus, Tok0, Tok1,
               TokNotype, TokU >>),
    RunLine(<< StagePath(<< "1", "2" >>, BtpflashSuffix(9)), Tok1em12, Tok0, Tok1,
               TokNotype, TokU >>) }

\* The run dumps of at most n of these lines.
RECURSIVE StageFilesUpTo(_)
StageFilesUpTo(n) ==
  IF n = 0 THEN { << >> }
  ELSE StageFilesUpTo(n - 1) \cup
       { f \o << l >> : f \in {g \in StageFilesUpTo(n - 1) : Len(g) = n - 1},
                        l \in StageLines }

\* [0-9.eE+ -]: the characters of group 2 (the optional sign before it is
\* of the class too)
ValueChars == Digits \cup {".", "e", "E", "+", " ", "-"}

\* s.replace(" ", "")
RECURSIVE RemoveSpaces(_)
RemoveSpaces(s) ==
  IF s = <<>> THEN <<>>
  ELSE (IF Head(s) = " " THEN <<>> ELSE << Head(s) >>) \o RemoveSpaces(Tail(s))

\* pattern.match(line) for the pattern of the given suffix:
\* Plant\.Absorber\.Stage\((\d+)\)<suffix>\s*:\s*([+-]?[0-9.eE+ -]+)
\* anchored at the start of the line.  Whitespace on the line is spaces.
PatternMatch(ln, suffix) ==
  LET no    == [matched |-> FALSE, group1 |-> <<>>, group2 |-> <<>>]
      rest1 == SubSeq(ln, Len(StrPlantStage) + 1, Len(ln))
      digs  == PrefixIn(rest1, Digits)
      rest2 == SubSeq(rest1, Len(digs) + 1, Len(rest1))
      tail  == << ")" >> \o suffix
      rest3 == LStrip(SubSeq(rest2, Len(tail) + 1, Len(rest2)))
      rest4 == Tail(rest3)
      run   == PrefixIn(rest4, ValueChars)
  IN  IF ~StartsWith(ln, StrPlantStage) \/ digs = <<>> THEN no
      ELSE IF ~StartsWith(rest2, tail) THEN no
      ELSE IF ~StartsWith(rest3, << ":" >>) THEN no
      ELSE IF run = <<>> THEN no
      ELSE [matched |-> TRUE, group1 |-> digs, group2 |-> run]

\* The variable names in the order of REQUIRED_VARIABLES
VarNames == << "pressure", "co2_mole_frac", "loading_co2" >>

\* ExtractStageVar with the first value of a stage kept.
ExtractStageVarFirstWins(acc, ln, var_name) ==
  LET m == PatternMatch(ln, REQUIRED_VARIABLES[var_name])
      stage_num == DigitsToInt(m.group1)
      value == ParseFloat(RemoveSpaces(Strip(m.group2)))
  IN  IF ~m.matched \/ value.kind = "err" THEN acc
      ELSE IF stage_num \in DOMAIN acc.data
      THEN (IF var_name \in DOMAIN acc.data[stage_num] THEN acc
            ELSE [acc EXCEPT !.data[stage_num] = Put(@, var_name, value)])
      ELSE [acc EXCEPT !.data = Put(@, stage_num, Put(EmptyDict, var_name, value))]

\* The body of `for var_name, pattern in patterns.items()` for one variable
ExtractStageVar(acc, ln, var_name) ==
  LET m == PatternMatch(ln, REQUIRED_VARIABLES[var_name])
      stage_num == DigitsToInt(m.group1)
      value_str == RemoveSpaces(Strip(m.group2))
      value == ParseFloat(value_str)
  IN  IF ~m.matched THEN acc
      ELSE IF value.kind = "err"
      THEN [acc EXCEPT !.warnings = Append(@, << value_str, stage_num, var_name >>)]
      ELSE [acc EXCEPT !.data =
              Put(@, stage_num,
                  Put(IF stage_num \in DOMAIN @ THEN @[stage_num] ELSE EmptyDict,
                      var_name, value))]

\* One iteration of the loop of extract_stage_data over the lines
ExtractStageLine(acc, raw) ==
  LET ln == Strip(raw)
  IN  IF SkippedLine(ln) THEN acc
      ELSE ExtractStageVar(
             ExtractStageVar(ExtractStageVar(acc, ln, VarNames[1]),
                             ln, VarNames[2]),
             ln, VarNames[3])

\* extract_stage_data over the first n lines of the file
RECURSIVE ExtractStage(_, _)
ExtractStage(file, n) ==
  IF n = 0 THEN [data |-> EmptyDict, warnings |-> << >>]
  ELSE ExtractStageLine(ExtractStage(file, n - 1), file[n])

InitStage ==
  /\ pc = "stage_start"
  /\ lineNo = 0
  /\ AppIdle
  /\ FlowIdle
  /\ CvapIdle
  /\ IoStart({"run_file"})
  /\ runFile \in (IF missing = {} THEN StageFilesUpTo(MaxStageLines)
                  ELSE {<< >>})
  /\ path_prefix = << >>
  /\ values_dict = << >>
  /\ folder_data = << >>
  /\ specific_data = << >>
  /\ files_created = << >>
  /\ warnings = << >>
  /\ stage_data = << >>
  /\ ReconIdle

\* stage_data = extract_stage_data(file_path)
ExtractStageData ==
  /\ pc = "stage_start"
  /\ IF "run_file" \in missing
     THEN /\ stage_data' = EmptyDict
          /\ warnings' = << >>
          /\ printed' = printed \cup {"ERROR: File not found"}
     ELSE /\ stage_data' = ExtractStage(runFile, Len(runFile)).data
          /\ warnings' = ExtractStage(runFile, Len(runFile)).warnings
          /\ printed' = printed
  /\ pc' = "stage_done"
  /\ UNCHANGED << cvapVars, lineNo, runFile, path_prefix, values_dict, folder_data,
                  specific_data,
                  files_created, appVars, flowVars, reconVars, missing, raised,
                  created >>

\* calculate_partial_pressure(stage_data): the stages that have the three
\* variables (the pressures computed for them are not modelled)
CalculatedStages ==
  {n \in DOMAIN stage_data :
     \A i \in DOMAIN VarNames : VarNames[i] \in DOMAIN stage_data[n]}

\* main() of co2_equilibrium.py after extract_stage_data: the summary, the
\* CSV export with --export-csv and the plots without --no-plot, both only
\* when some stage has the three variables.  Run names are left out of the
\* file names.
Co2Outputs ==
  /\ pc = "stage_done"
  /\ \E export_csv, no_plot \in BOOLEAN :
       created' = created
         \cup (IF export_csv /\ CalculatedStages # {}
               THEN {Output(<< >>, ""), Output(<< >>, "co2_equilibrium_data.csv")}
               ELSE {})
         \cup (IF ~no_plot /\ CalculatedStages # {}
               THEN {Output(<< >>, ""), Output(<< >>, "co2_equilibrium.png"),
                     Output(<< >>, "co2_stage_profiles.png"),
                     Output(<< >>, "co2_equilibrium_loglog.png")}
               ELSE {})
  /\ printed' = printed \cup (IF DOMAIN stage_data = {}
                              THEN {"No data extracted."} ELSE {})
  /\ pc' = "stage_end"
  /\ UNCHANGED << cvapVars, lineNo, appVars, flowVars, runVars, stageVars, reconVars,
                  missing, raised >>

\* VLLE.py, the body of `for idx, pattern in patterns.items()` for one index
ExtractVlleVar(acc, ln, idx) ==
  LET m == PatternMatch(ln, BtpflashSuffix(idx))
      stage_num == DigitsToInt(m.group1)
      value_str == RemoveSpaces(Strip(m.group2))
      value == ParseFloat(value_str)
  IN  IF ~m.matched THEN acc
      ELSE IF value.kind = "err"
      THEN [acc EXCEPT !.warnings = Append(@, << value_str, stage_num, idx >>)]
      ELSE [acc EXCEPT !.data =
              Put(@, stage_num,
                  Put(IF stage_num \in DOMAIN @ THEN @[stage_num] ELSE EmptyDict,
                      idx, value))]

\* VLLE.py, extract_stage_data over the first n lines of the file
RECURSIVE ExtractVlle(_, _)
ExtractVlle(file, n) ==
  IF n = 0 THEN [data |-> EmptyDict, warnings |-> << >>]
  ELSE LET acc == ExtractVlle(file, n - 1)
           ln  == Strip(file[n])
       IN  IF SkippedLine(ln) THEN acc
           ELSE ExtractVlleVar(
                  ExtractVlleVar(ExtractVlleVar(acc, ln, BTPFLASH_INDICES[1]),
                                 ln, BTPFLASH_INDICES[2]),
                  ln, BTPFLASH_INDICES[3])

\* VLLE.py: stage_data = extract_stage_data(args.run_file)
ExtractVlleStageData ==
  /\ pc = "stage_start"
  /\ IF "run_file" \in missing
     THEN /\ stage_data' = EmptyDict
          /\ warnings' = << >>
          /\ printed' = printed \cup {"ERROR: File not found"}
     ELSE /\ stage_data' = ExtractVlle(runFile, Len(runFile)).data
          /\ warnings' = ExtractVlle(runFile, Len(runFile)).warnings
          /\ printed' = printed
  /\ pc' = "vlle_done"
  /\ UNCHANGED << cvapVars, lineNo, runFile, path_prefix, values_dict, folder_data,
                  specific_data,
                  files_created, appVars, flowVars, reconVars, missing, raised,
                  created >>

\* The name of the plot of a btpflash_2 index, from VARIABLE_LABELS
VllePlotName(idx) ==
  CASE idx = 25 -> "2nd_liquid_phase_vs_stage.png"
    [] idx = 17 -> "1st_liquid_phase_vs_stage.png"
    [] idx = 9  -> "vapour_phase_vs_stage.png"

\* main() of VLLE.py after extract_stage_data: the summary and, without
\* --no-plot and with data, create_plots: one plot for every index that a
\* stage has and the combined plot.
VlleOutputs ==
  /\ pc = "vlle_done"
  /\ \E no_plot \in BOOLEAN :
       created' = created
         \cup (IF ~no_plot /\ DOMAIN stage_data # {}
               THEN {Output(<< >>, ""), Output(<< >>, "VLLE_phase_analysis.png")}
                    \cup {Output(<< >>, VllePlotName(BTPFLASH_INDICES[i])) :
                            i \in {j \in DOMAIN BTPFLASH_INDICES :
                                     \E n \in DOMAIN stage_data :
                                       BTPFLASH_INDICES[j] \in DOMAIN stage_data[n]}}
               ELSE {})
  /\ printed' = printed \cup (IF DOMAIN stage_data = {}
                              THEN {"No data extracted."} ELSE {})
  /\ pc' = "vlle_end"
  /\ UNCHANGED << cvapVars, lineNo, appVars, flowVars, runVars, stageVars, reconVars,
                  missing, raised >>

NextStage ==
  \/ ExtractStageData
  \/ Co2Outputs
  \/ ExtractVlleStageData
  \/ VlleOutputs

(***************************************************************************)
(* scripts/concatenate.py, scripts/concatenateV2.py                        *)
(***************************************************************************)
\* FormatE16 with the mantissa cut to two significant digits
FormatE16TwoDigits(val) ==
  LET all == SigDigits(Abs(val))
      d   == IF Len(all) > 2 THEN SubSeq(all, 1, 2) ELSE all
  IN  (IF val < 0 THEN << "-" >> ELSE << >>)
        \o << d[1], "." >> \o Tail(d) \o Zeros(17 - Len(d))
        \o ExpText(DecExp(Abs(val)))

\* f"{num:.16e}" of a finite num # 0: one digit, 16 digits after the point
\* (num has fewer than 17 significant digits here: none is rounded away)
\* and the exponent.
FormatE16(val) ==
  LET d == SigDigits(Abs(val))
  IN  (IF val < 0 THEN << "-" >> ELSE << >>)
        \o << d[1], "." >> \o Tail(d) \o Zeros(17 - Len(d))
        \o ExpText(DecExp(Abs(val)))

\* What format_scientific_notation writes for value_str, num being
\* float(value_str)
FormatParsed(value_str, num) ==
  IF num.kind = "err" THEN value_str
  ELSE IF num.kind = "fin" /\ num.val = 0
  THEN << "0", "." >> \o Zeros(16) \o ExpText(0)
  ELSE IF num.kind = "fin" THEN FormatE16(num.val)
  ELSE FloatRepr(num)

\* format_scientific_notation(value_str)
format_scientific_notation(value_str) ==
  FormatParsed(value_str, ParseFloat(value_str))

\* The default bounds and type of a line of two to five fields
StrLowerDefault ==
  << "-", "1", ".", "0", "0", "0", "0", "0", "e", "+", "2", "0" >>
StrUpperDefault == Tail(StrLowerDefault)

\* One iteration of the line loop of read_csv_files (and of
\* read_csv_in_folder_order): the record of a line of variables.csv,
\* appended to acc.
ReadCsvLine(acc, raw, prefix) ==
  LET ln    == Strip(raw)
      parts == StripAll(Split(ln, ","))
  IN  IF ln = <<>> THEN acc
      ELSE IF Len(parts) >= 6
      THEN Append(acc, [path |-> prefix \o parts[1], value |-> parts[2],
                        lower_bound |-> parts[3], upper_bound |-> parts[4],
                        type |-> parts[5], units |-> parts[6]])
      ELSE IF Len(parts) >= 2
      THEN Append(acc, [path |-> prefix \o parts[1], value |-> parts[2],
                        lower_bound |-> StrLowerDefault,
                        upper_bound |-> StrUpperDefault,
                        type |-> TokNotype, units |-> << >>])
      ELSE acc

\* The records of the first n lines of the variables.csv of a folder: the
\* folder's components joined by dots and a dot are the prefix of the paths.
RECURSIVE ReadCsvFile(_, _, _)
ReadCsvFile(acc, folder, n) ==
  IF n = 0 THEN acc
  ELSE ReadCsvLine(ReadCsvFile(acc, folder, n - 1), csv_files[folder][n],
                   Join(folder, << "." >>) \o << "." >>)

\* The records of the folders in the order they are walked
RECURSIVE ReadCsvFolders(_)
ReadCsvFolders(order) ==
  IF order = <<>> THEN <<>>
  ELSE ReadCsvFile(ReadCsvFolders(SubSeq(order, 1, Len(order) - 1)),
                   order[Len(order)], Len(csv_files[order[Len(order)]]))

\* Folder f is walked before folder g by os.walk with dirs.sort(): a folder
\* before its subfolders, siblings in the order of their names.
RECURSIVE FolderLess(_, _)
FolderLess(f, g) ==
  IF g = <<>> THEN FALSE
  ELSE IF f = <<>> THEN TRUE
  ELSE IF Head(f) # Head(g) THEN StrLess(Head(f), Head(g))
  ELSE FolderLess(Tail(f), Tail(g))

RECURSIVE WalkOrder(_)
WalkOrder(S) ==
  IF S = {} THEN <<>>
  ELSE LET m == CHOOSE x \in S : \A y \in S \ {x} : FolderLess(x, y)
       IN  << m >> \o WalkOrder(S \ {m})

\* s.find(sub): the 0-based index of the first occurrence, -1 when none
FindStr(s, sub) ==
  LET at == {i \in 1..(Len(s) - Len(sub) + 1) :
               SubSeq(s, i, i + Len(sub) - 1) = sub}
  IN  IF at = {} THEN -1 ELSE (CHOOSE i \in at : \A j \in at : i <= j) - 1

StrSep == << " ", ":", " " >>

\* load_variable_order(): the paths of good_order.txt in file order
RECURSIVE LoadOrderLines(_, _)
LoadOrderLines(lines, n) ==
  IF n = 0 THEN <<>>
  ELSE LET ln == Strip(lines[n])
           before == LoadOrderLines(lines, n - 1)
       IN  IF ln = <<>> \/ ln[1] = "#" \/ ln[1] = "!" THEN before
           ELSE IF FindStr(ln, StrSep) = -1 THEN before
           ELSE Append(before, SubSeq(ln, 1, FindStr(ln, StrSep)))

load_variable_order(file) ==
  IF file.exists THEN LoadOrderLines(file.lines, Len(file.lines)) ELSE << >>

\* order_map = {path: i for i, path in enumerate(order_list)}: the last
\* position of a path that is listed twice
OrderMap(order_list) ==
  [p \in {order_list[i] : i \in DOMAIN order_list} |->
     (CHOOSE i \in DOMAIN order_list :
        order_list[i] = p /\ \A j \in DOMAIN order_list :
                                order_list[j] = p => j <= i) - 1]

\* SortKeyLess with the key (1, path) for every variable
SortKeyLessByPath(u, v, order_list) == StrLess(u.path, v.path)

\* sort_key(var) is less for u than for v.  With an order list the key is
\* (0, rank) for a listed path and (1, path) otherwise; without one it is
\* (len(parts), tuple(parts)) for parts = path.split('.').
SortKeyLess(u, v, order_list) ==
  LET om == OrderMap(order_list)
      pu == Split(u.path, ".")
      pv == Split(v.path, ".")
  IN  IF order_list # << >>
      THEN IF u.path \in DOMAIN om
           THEN v.path \in DOMAIN om => om[u.path] < om[v.path]
           ELSE v.path \notin DOMAIN om /\ StrLess(u.path, v.path)
      ELSE IF Len(pu) # Len(pv) THEN Len(pu) < Len(pv)
      ELSE FolderLess(pu, pv)

\* SortedVariables over the distinct records: a record equal to an earlier
\* one is dropped.
RECURSIVE SortedVariablesDistinct(_, _)
SortedVariablesDistinct(vs, order_list) ==
  IF vs = <<>> THEN <<>>
  ELSE LET front == SortedVariablesDistinct(SubSeq(vs, 1, Len(vs) - 1),
                                            order_list)
           v     == vs[Len(vs)]
           n     == Cardinality({i \in 1..Len(front) :
                                   ~SortKeyLess(v, front[i], order_list)})
       IN  IF \E i \in 1..Len(front) : front[i] = v THEN front
           ELSE SubSeq(front, 1, n) \o << v >> \o SubSeq(front, n + 1, Len(front))

\* sorted(variables_data, key=sort_key): ascending and stable
RECURSIVE SortedVariables(_, _)
SortedVariables(vs, order_list) ==
  IF vs = <<>> THEN <<>>
  ELSE LET front == SortedVariables(SubSeq(vs, 1, Len(vs) - 1), order_list)
           v     == vs[Len(vs)]
           n     == Cardinality({i \in 1..Len(front) :
                                   ~SortKeyLess(v, front[i], order_list)})
       IN  SubSeq(front, 1, n) \o << v >> \o SubSeq(front, n + 1, Len(front))

\* The row write_txt_file writes for a variable
TxtRow(var) ==
  << "\t" >> \o var.path \o StrSep
    \o format_scientific_notation(var.value) \o StrSep
    \o format_scientific_notation(var.lower_bound) \o StrSep
    \o format_scientific_notation(var.upper_bound) \o StrSep
    \o var.type
    \o (IF Strip(var.units) # <<>> THEN StrSep \o var.units
        ELSE << " ", ":" >>)

\* Lines the run dump that is split and rebuilt is made of.
NamePProfile == << "P", "." >> \o NameProfile
NameARb == << "A", ".", "R", ".", "b" >>
NameBx  == << "B", ".", "x" >>
NameBy  == << "B", ".", "y" >>
NameBz  == << "B", ".", "z" >>
TokINF  == << "I", "N", "F" >>
TokMinusINF == << "-" >> \o TokINF

ReconLines ==
  { RunLine(<< NamePa, Tok1em12, Tok0, Tok1em3, TokT, TokU >>),
    RunLine(<< NamePProfile, Tok3em6, Tok0, Tok1em3, TokT, TokU >>),
    RunLine(<< NameARb, Tok245em6, Tok0, Tok1em3, TokNotype, << >> >>),
    RunLine(<< NameBx, TokINF, TokMinusINF, Tok1em3, TokT, TokU >>),
    RunLine(<< NameBy, Tok0, Tok0, Tok1em3, TokT, TokU >>),
    RunLine(<< NameBz, TokNan, Tok0, Tok1em3, TokT, TokU >>),
    RunLine(<< NameG, Tok1em12, Tok0, Tok1em3, TokT, TokU >>),
    RunLine(<< NamePc, TokNaNish, Tok0, Tok1em3, TokT, TokU >>) }

\* The run dumps of at most n of these lines.
RECURSIVE ReconFilesUpTo(_)
ReconFilesUpTo(n) ==
  IF n = 0 THEN { << >> }
  ELSE ReconFilesUpTo(n - 1) \cup
       { f \o << l >> : f \in {g \in ReconFilesUpTo(n - 1) : Len(g) = n - 1},
                        l \in ReconLines }

\* good_order.txt: missing; a header only; bare paths; a header and the
\* rows of P.a and B.y, in this order
OrderHeader ==
  << "#", " ", "P", "a", "t", "h", "N", "a", "m", "e", " ", ":", " ", "V",
     "a", "l", "u", "e" >>

OrderFiles ==
  { NoOrderFile,
    [exists |-> TRUE, lines |-> << OrderHeader >>],
    [exists |-> TRUE, lines |-> << NamePa, NameBy >>],
    [exists |-> TRUE,
     lines  |-> << OrderHeader,
                   << "\t" >> \o RunLine(<< NamePa, Tok1em12, Tok0, Tok1em3,
                                            TokT, TokU >>),
                   << "\t" >> \o RunLine(<< NameBy, Tok0, Tok0, Tok1em3,
                                            TokT, TokU >>) >>] }

InitRecon ==
  /\ pc = "run_start"
  /\ lineNo = 0
  /\ AppIdle
  /\ FlowIdle
  /\ StageIdle
  /\ csv_files = << >>
  /\ all_variables = << >>
  /\ txt_rows = << >>
  /\ header_count = None
  /\ orderFile \in OrderFiles
  /\ CvapIdle
  /\ IoStart({"file_path"})
  /\ runFile \in (IF missing = {} THEN ReconFilesUpTo(MaxReconLines)
                  ELSE {<< >>})
  /\ path_prefix = None
  /\ values_dict = << >>
  /\ folder_data = << >>
  /\ specific_data = << >>
  /\ files_created = << >>
  /\ warnings = << >>

\* variables_data = read_csv_files(input_folder): os.walk lists the folders
\* in the order of the file system
ReadCsvFiles ==
  /\ pc = "run_organized"
  /\ DOMAIN csv_files # {}
  /\ \E order \in Orders(DOMAIN csv_files) :
       all_variables' = ReadCsvFolders(order)
  /\ pc' = "cat_read"
  /\ UNCHANGED << cvapVars, lineNo, appVars, flowVars, runVars, stageVars, csv_files,
                  orderFile, txt_rows, header_count, ioVars, raised >>

\* vars = read_csv_in_folder_order(input_folder): os.walk with the
\* subfolders sorted
ReadCsvInFolderOrder ==
  /\ pc = "run_organized"
  /\ DOMAIN csv_files # {}
  /\ all_variables' = ReadCsvFolders(WalkOrder(DOMAIN csv_files))
  /\ pc' = "cat2_read"
  /\ UNCHANGED << cvapVars, lineNo, appVars, flowVars, runVars, stageVars, csv_files,
                  orderFile, txt_rows, header_count, ioVars, raised >>

\* The mains of concatenate.py and concatenateV2.py when the input folder
\* does not exist (organize_values_to_folders creates the folders of its
\* rows only).  Given the folder as an argument, concatenate.py reports it
\* and returns, and so does concatenateV2.py; get_user_input() of
\* concatenate.py reports it and asks again.
ConcatenateFolderMissing ==
  /\ pc \in {"run_organized", "cat_prompt"}
  /\ DOMAIN csv_files = {}
  /\ \E mode \in {"argument", "interactive", "v2"} :
       /\ pc = "cat_prompt" => mode = "interactive"
       /\ printed' = printed \cup
            { CASE mode = "argument"    -> "Error: Folder not found."
                [] mode = "interactive" -> "Error: Folder not found. Please try again."
                [] mode = "v2"          -> "Input folder not found" }
       /\ pc' = IF mode = "interactive" THEN "cat_prompt" ELSE "cat_returned"
  /\ UNCHANGED << cvapVars, lineNo, appVars, flowVars, runVars, stageVars, reconVars,
                  missing, raised, created >>

\* write_txt_file(variables_data, output_file): the rows after the header.
\* main calls it when variables_data is not empty, and every row of a
\* variables.csv written by organize_values_to_folders gives a variable.
WriteTxtFile ==
  /\ pc = "cat_read"
  /\ all_variables # << >>
  /\ txt_rows' =
       LET sorted_variables ==
             SortedVariables(all_variables, load_variable_order(orderFile))
       IN  [i \in 1..Len(sorted_variables) |-> TxtRow(sorted_variables[i])]
  /\ header_count' = Some(Len(all_variables))
  /\ created' = created \cup {Output(<< >>, "reconstructed.txt")}
  /\ pc' = "cat_written"
  /\ UNCHANGED << cvapVars, lineNo, appVars, flowVars, runVars, stageVars, csv_files,
                  all_variables, orderFile, missing, raised, printed >>

\* write_reconstructed(vars, output_file): the rows in the order read
WriteReconstructed ==
  /\ pc = "cat2_read"
  /\ all_variables # << >>
  /\ txt_rows' = [i \in 1..Len(all_variables) |-> TxtRow(all_variables[i])]
  /\ header_count' = Some(Len(all_variables))
  /\ created' = created \cup {Output(<< >>, "reconstructed_v2.txt")}
  /\ pc' = "cat2_written"
  /\ UNCHANGED << cvapVars, lineNo, appVars, flowVars, runVars, stageVars, csv_files,
                  all_variables, orderFile, missing, raised, printed >>

NextRecon ==
  \/ OrganizeValuesToFolders
  \/ ReadCsvFiles
  \/ ReadCsvInFolderOrder
  \/ ConcatenateFolderMissing
  \/ WriteTxtFile
  \/ WriteReconstructed

(***************************************************************************)
(* analysis/scripts/cvap.py                                                *)
(***************************************************************************)
StrStage1 ==
  << "P", "l", "a", "n", "t", ".", "A", "b", "s", "o", "r", "b", "e", "r",
     ".", "S", "t", "a", "g", "e", "(", "1", ")", "." >>
StrCvapI   == << "C", "_", "v", "a", "p", "_", "I" >>
StrCliqI   == << "C", "_", "l", "i", "q", "_", "I" >>
StrCvapOut == << "C", "_", "v", "a", "p", "_", "o", "u", "t" >>
StrCliqOut == << "C", "_", "l", "i", "q", "_", "o", "u", "t" >>
StrKvap    == << "k", "v", "a", "p" >>
StrKliq    == << "k", "l", "i", "q" >>
StrH2O     == << "H", "2", "O" >>
StrCO2     == << "C", "O", "2" >>
StrN2      == << "N", "2" >>
StrTotalAbs == << "_", "t", "o", "t", "a", "l", "_", "a", "b", "s" >>

\* Plant.Absorber.Stage(1).<quantity>("<species>")
StageVar(quantity, species) ==
  StrStage1 \o quantity \o << "(", "\"" >> \o species \o << "\"", ")" >>

VARIABLES_TO_COMPARE ==
  << StageVar(StrCvapI, StrH2O),   StageVar(StrCliqI, StrH2O),
     StageVar(StrCvapI, StrCO2),   StageVar(StrCliqI, StrCO2),
     StageVar(StrCvapI, StrN2),    StageVar(StrCliqI, StrN2),
     StageVar(StrCvapOut, StrH2O), StageVar(StrCliqOut, StrH2O),
     StageVar(StrCvapOut, StrCO2), StageVar(StrCliqOut, StrCO2),
     StageVar(StrCvapOut, StrN2),  StageVar(StrCliqOut, StrN2),
     StageVar(StrKvap, StrH2O),    StageVar(StrKvap, StrCO2),
     StageVar(StrKvap, StrN2),     StageVar(StrKliq, StrH2O),
     StageVar(StrKliq, StrCO2),    StageVar(StrKliq, StrN2) >>

\* One entry of COMPOSITE_COMPARISONS
Composite(quantity, species1) ==
  [name |-> StrStage1 \o quantity \o StrTotalAbs,
   file1_vars |-> [i \in DOMAIN species1 |-> StageVar(quantity, species1[i])],
   file2_var |-> StageVar(quantity, NameAbs1)]

COMPOSITE_COMPARISONS ==
  << Composite(StrCvapI, << NameAbs1, NameAbs2 >>),
     Composite(StrCliqI, << NameAbs1, NameAbs2 >>),
     Composite(StrCvapOut, << NameAbs1, NameAbs2 >>),
     Composite(StrCliqOut, << NameAbs1, NameAbs2 >>),
     Composite(StrKliq, << NameAbs1 >>),
     Composite(StrKvap, << NameAbs1 >>) >>

\* get_all_unique_variables(), as a set
AllUniqueVariables ==
  {VARIABLES_TO_COMPARE[i] : i \in DOMAIN VARIABLES_TO_COMPARE}
    \cup UNION {{c.file1_vars[i] : i \in DOMAIN c.file1_vars} \cup {c.file2_var} :
                c \in {COMPOSITE_COMPARISONS[k] : k \in DOMAIN COMPOSITE_COMPARISONS}}

\* Lines the run files compared by cvap.py are made of.
CvapLines ==
  { << "\t" >> \o RunLine(<< StageVar(StrKvap, StrCO2), Tok5em8, Tok0, Tok1,
                              TokNotype, TokU >>),
    << "\t" >> \o RunLine(<< StageVar(StrKvap, StrCO2), Tok7em8, Tok0, Tok1,
                              TokNotype, TokU >>),
    << "\t" >> \o RunLine(<< StageVar(StrKvap, StrCO2), TokMinus, Tok0, Tok1,
                              TokNotype, TokU >>),
    << "\t" >> \o RunLine(<< StageVar(StrKvap, StrCO2), Tok0, Tok0, Tok1,
                              TokNotype, TokU >>),
    << "\t" >> \o RunLine(<< StageVar(StrCvapI, NameAbs1), Tok2em8, Tok0, Tok1,
                              TokNotype, TokU >>),
    << "\t" >> \o RunLine(<< StageVar(StrCvapI, NameAbs2), Tok3em8, Tok0, Tok1,
                              TokNotype, TokU >>) }

\* The run files of at most n of these lines.
RECURSIVE CvapFilesUpTo(_)
CvapFilesUpTo(n) ==
  IF n = 0 THEN { << >> }
  ELSE CvapFilesUpTo(n - 1) \cup
       { f \o << l >> : f \in {g \in CvapFilesUpTo(n - 1) : Len(g) = n - 1},
                        l \in CvapLines }

\* The number float() makes of the token of pattern.match(line), for the
\* pattern ^\s*<var>\s*:\s*([+-]?[0-9.eE+ -]+) of variable var: None when
\* the line does not match or float() rejects the token.
MatchedValue(ln, var) ==
  LET rest1 == LStrip(ln)
      rest2 == LStrip(SubSeq(rest1, Len(var) + 1, Len(rest1)))
      group == PrefixIn(Tail(rest2), ValueChars)
      value == ParseFloat(RemoveSpaces(Strip(group)))
  IN  IF ~StartsWith(rest1, var) THEN None
      ELSE IF ~StartsWith(rest2, << ":" >>) \/ group = << >> THEN None
      ELSE IF value.kind = "err" THEN None
      ELSE Some(value.val)

\* pattern.match(line) is not None for the pattern of variable var
PatternMatches(ln, var) ==
  LET rest1 == LStrip(ln)
      rest2 == LStrip(SubSeq(rest1, Len(var) + 1, Len(rest1)))
  IN  /\ StartsWith(rest1, var)
      /\ StartsWith(rest2, << ":" >>)
      /\ PrefixIn(Tail(rest2), ValueChars) # << >>

\* extract_variable_from_run(path, var) for the file of the given name: the
\* first line the pattern matches decides, float(token) or None
extract_variable_from_run(name, file, var) ==
  LET at == {i \in DOMAIN file : PatternMatches(file[i], var)}
  IN  IF name \in missing \/ at = {} THEN None
      ELSE MatchedValue(file[CHOOSE i \in at : \A j \in at : i <= j], var)

\* results[var] after the first n lines: the first value a line gives
RECURSIVE ExtractVariable(_, _, _)
ExtractVariable(file, n, var) ==
  IF n = 0 THEN None
  ELSE IF ExtractVariable(file, n - 1, var) # None
  THEN ExtractVariable(file, n - 1, var)
  ELSE MatchedValue(file[n], var)

\* extract_all_variables(path, variables) for the file of the given name
extract_all_variables(name, file, variables) ==
  [var \in variables |->
     IF name \in missing THEN None ELSE ExtractVariable(file, Len(file), var)]

\* compute_composite_values(values, is_file1): None when a summand is None
RECURSIVE SumValues(_, _)
SumValues(values, names) ==
  IF names = << >> THEN Some(0)
  ELSE IF values[Head(names)] = None \/ SumValues(values, Tail(names)) = None
  THEN None
  ELSE Some(values[Head(names)][1] + SumValues(values, Tail(names))[1])

\* SumValues with a missing summand counted as zero.
RECURSIVE SumValuesPresent(_, _)
SumValuesPresent(values, names) ==
  IF names = << >> THEN Some(0)
  ELSE Some((IF values[Head(names)] = None THEN 0 ELSE values[Head(names)][1])
            + SumValuesPresent(values, Tail(names))[1])

\* compute_composite_values with the sum taken over the summands present.
compute_composite_valuesPresent(values, is_file1) ==
  [k \in DOMAIN COMPOSITE_COMPARISONS |->
     IF is_file1
     THEN SumValuesPresent(values, COMPOSITE_COMPARISONS[k].file1_vars)
     ELSE values[COMPOSITE_COMPARISONS[k].file2_var]]

compute_composite_values(values, is_file1) ==
  [k \in DOMAIN COMPOSITE_COMPARISONS |->
     IF is_file1 THEN SumValues(values, COMPOSITE_COMPARISONS[k].file1_vars)
     ELSE values[COMPOSITE_COMPARISONS[k].file2_var]]

\* compute_differences with the absolute value as abs_diff.
compute_differencesUnsigned(v1, v2) ==
  IF v1 = None \/ v2 = None THEN << None, None >>
  ELSE << Some(Abs(v1[1] - v2[1])),
          Some(IF Abs(v2[1]) < Scale(1, -12)
               THEN (IF v1[1] - v2[1] # 0 THEN Inf ELSE Fin(<< 0, 1 >>))
               ELSE Fin(Rat(Abs(v1[1] - v2[1]) * 100, v2[1]))) >>

\* compute_differences(v1, v2): <<abs_diff, pct_diff>>
compute_differences(v1, v2) ==
  IF v1 = None \/ v2 = None THEN << None, None >>
  ELSE << Some(v1[1] - v2[1]),
          Some(IF Abs(v2[1]) < Scale(1, -12)
               THEN (IF v1[1] - v2[1] # 0 THEN Inf ELSE Fin(<< 0, 1 >>))
               ELSE Fin(Rat((v1[1] - v2[1]) * 100, v2[1]))) >>

\* A row of cvap.csv (numbers are kept as numbers)
ComparisonRow(variable, type, v1, v2) ==
  [variable |-> variable, type |-> type, file1_value |-> v1,
   file2_value |-> v2, abs_diff |-> compute_differences(v1, v2)[1],
   pct_diff |-> compute_differences(v1, v2)[2]]

\* The rows write_comparison_csv writes after the header
ComparisonRows(v1, v2, c1, c2) ==
  [i \in DOMAIN VARIABLES_TO_COMPARE |->
     ComparisonRow(VARIABLES_TO_COMPARE[i], "simple",
                   v1[VARIABLES_TO_COMPARE[i]], v2[VARIABLES_TO_COMPARE[i]])]
  \o [k \in DOMAIN COMPOSITE_COMPARISONS |->
        ComparisonRow(COMPOSITE_COMPARISONS[k].name, "composite", c1[k], c2[k])]

InitCvap ==
  /\ pc = "cvap_start"
  /\ lineNo = 0
  /\ AppIdle
  /\ FlowIdle
  /\ RunIdle
  /\ StageIdle
  /\ ReconIdle
  /\ IoStart({"run1", "run2"})
  /\ run1 \in (IF "run1" \in missing THEN {<< >>}
               ELSE CvapFilesUpTo(MaxCvapLines1))
  /\ run2 \in (IF "run2" \in missing THEN {<< >>}
               ELSE CvapFilesUpTo(MaxCvapLines2))
  /\ values1 = << >>
  /\ values2 = << >>
  /\ single1 = << >>
  /\ single2 = << >>
  /\ cvap_rows = << >>

\* main(): values1 = extract_all_variables(p1, all_vars);
\* values2 = extract_all_variables(p2, all_vars)
ExtractAllVariables ==
  /\ pc = "cvap_start"
  /\ values1' = extract_all_variables("run1", run1, AllUniqueVariables)
  /\ values2' = extract_all_variables("run2", run2, AllUniqueVariables)
  /\ pc' = "cvap_extracted"
  /\ UNCHANGED << lineNo, appVars, flowVars, runVars, stageVars, reconVars,
                  ioVars, raised, run1, run2, single1, single2, cvap_rows >>

\* main(): the composite values, ensure_outdir(), write_comparison_csv and,
\* without --no-plot, plot_percentage_differences, which saves the plot
\* when a row has a finite percentage
WriteComparison ==
  /\ pc = "cvap_extracted"
  /\ cvap_rows' = ComparisonRows(values1, values2,
                                 compute_composite_values(values1, TRUE),
                                 compute_composite_values(values2, FALSE))
  /\ \E no_plot \in BOOLEAN :
       created' = created
         \cup {Output(<< >>, ""), Output(<< >>, "cvap.csv")}
         \cup (IF ~no_plot /\ \E i \in DOMAIN cvap_rows' :
                                /\ cvap_rows'[i].pct_diff # None
                                /\ ~cvap_rows'[i].pct_diff[1].inf
               THEN {Output(<< >>, "cvap.png")} ELSE {})
  /\ pc' = "cvap_done"
  /\ UNCHANGED << lineNo, appVars, flowVars, runVars, stageVars, reconVars,
                  missing, raised, printed, run1, run2, values1, values2,
                  single1, single2 >>

\* extract_variable_from_run(p1, var) and extract_variable_from_run(p2,
\* var) for every variable var of the list
ExtractEachVariable ==
  /\ pc = "cvap_extracted"
  /\ single1' = [var \in AllUniqueVariables |->
                   extract_variable_from_run("run1", run1, var)]
  /\ single2' = [var \in AllUniqueVariables |->
                   extract_variable_from_run("run2", run2, var)]
  /\ pc' = "cvap_each"
  /\ UNCHANGED << lineNo, appVars, flowVars, runVars, stageVars, reconVars,
                  ioVars, raised, run1, run2, values1, values2, cvap_rows >>

NextCvap == ExtractAllVariables \/ WriteComparison

vars == << pc, lineNo, appVars, flowVars, runVars, newVars >>

SpecApp == InitApp /\ [][NextApp]_vars

\* app.py run on two files and then on the same two files exchanged
NextSwapped == NextApp \/ CompareDictsSwapped

SpecSwapped == InitApp /\ [][NextSwapped]_vars

SpecFlow == InitFlow /\ [][NextFlow]_vars

SpecRun == InitRun /\ [][NextRun]_vars

\* organize_values_to_folders and then organize_specific_path on one file
NextOrganize == OrganizeValuesToFolders \/ OrganizeSpecificPath

SpecOrganize == InitRun /\ [][NextOrganize]_vars

SpecRecon == InitRecon /\ [][NextRecon]_vars

SpecCvap == InitCvap /\ [][NextCvap]_vars

\* The two extractors of cvap.py run on the same two files
NextExtract == ExtractAllVariables \/ ExtractEachVariable

SpecExtract == InitCvap /\ [][NextExtract]_vars

SpecStage == InitStage /\ [][NextStage]_vars

\* Any one of the scripts runs.
Init ==
  InitApp \/ InitFlow \/ InitRun \/ InitStage \/ InitRecon \/ InitCvap

Next ==
  NextApp \/ NextFlow \/ NextRun \/ NextStage \/ NextRecon \/ NextCvap

Spec == Init /\ [][Next]_vars


(***************************************************************************)
(* Properties of app.py                                                    *)
(***************************************************************************)
\* The indices of the rows of diffs
Rows == 1..Len(diffs)

\* The rows of diffs whose path is a key of both mappings
BothRows == {j \in Rows : diffs[j].variable \in DOMAIN d1 \cap DOMAIN d2}

\* The rows of diffs whose path is a key of both mappings with two numbers
NumericRows ==
  {j \in BothRows : /\ d1[diffs[j].variable].value_num # None
                    /\ d2[diffs[j].variable].value_num # None}

\* C1: compare_dicts returns exactly one row per path of
\* keys(d1) \cup keys(d2): the set of the rows' variable fields is that
\* union and no path is the variable of two rows.
C1_OneRowPerPath ==
  pc = "done" =>
    /\ {diffs[j].variable : j \in Rows} = DOMAIN d1 \cup DOMAIN d2
    /\ \A i, j \in Rows : diffs[i].variable = diffs[j].variable => i = j

\* C1 witness: a comparison with a path only in d1, one only in d2 and one
\* in both.
C1_Witness ==
  /\ pc = "done"
  /\ DOMAIN d1 \ DOMAIN d2 # {}
  /\ DOMAIN d2 \ DOMAIN d1 # {}
  /\ DOMAIN d1 \cap DOMAIN d2 # {}
  /\ Len(diffs) = 3

\* C2: for a path in both inputs with two numeric values, abs_diff is
\* |n1 - n2|, rel_diff is abs_diff / max(|n1|, |n2|, tiny), in_tolerance is
\* (abs_diff <= abs_tol) or (rel_diff <= rel_tol), the status is
\* equal_within_tol exactly when in_tolerance holds and different otherwise,
\* and with no tolerance given abs_tol is 1e-12 and rel_tol is 1e-6.
C2_NumericRule ==
  pc = "done" =>
    /\ tolArgs = None => tol = << Scale(1, -12), << 1, 1000000 >> >>
    /\ \A j \in NumericRows :
         LET n1 == d1[diffs[j].variable].value_num[1]
             n2 == d2[diffs[j].variable].value_num[1]
             ad == IF n1 >= n2 THEN n1 - n2 ELSE n2 - n1
             mx == Max2(Abs(n1), Abs(n2))
             rd == IF mx = 0 THEN << 0, 1 >> ELSE Rat(ad, mx)
             ok == ad <= tol[1] \/ RatLeq(rd, tol[2])
         IN  /\ diffs[j].abs_diff = << ad >>
             /\ diffs[j].rel_diff = << rd >>
             /\ diffs[j].in_tolerance = "true" <=> ok
             /\ diffs[j].in_tolerance \in {"true", "false"}
             /\ diffs[j].status = "equal_within_tol" <=> ok
             /\ diffs[j].status = "different" <=> ~ok

\* C2 witness: under the default tolerances, two numbers further apart than
\* abs_tol that are within rel_tol of each other.
C2_Witness ==
  /\ pc = "done"
  /\ tolArgs = None
  /\ \E j \in NumericRows :
       /\ diffs[j].abs_diff[1] > tol[1]
       /\ diffs[j].status = "equal_within_tol"

\* C3: for every path in both inputs whose two values are exactly equal the
\* status is equal_within_tol, whatever tolerances are passed and whether
\* the values are numeric or not.
C3_EqualValuesEqualStatus ==
  pc = "done" =>
    \A j \in BothRows :
      d1[diffs[j].variable].value_str = d2[diffs[j].variable].value_str
        => diffs[j].status = "equal_within_tol"

\* C5: for a path in both inputs with at least one non-numeric value, no
\* abs_diff or rel_diff is computed and the status is equal_within_tol if
\* the two value tokens are the same string and different otherwise.
C5_StringFallback ==
  pc = "done" =>
    \A j \in BothRows \ NumericRows :
      LET a == d1[diffs[j].variable]
          b == d2[diffs[j].variable]
      IN  /\ diffs[j].abs_diff = <<>>
          /\ diffs[j].rel_diff = <<>>
          /\ diffs[j].status =
               IF a.value_str = b.value_str THEN "equal_within_tol"
                                            ELSE "different"

\* C5 witness: the same path with an unparseable token on one side and inf
\* on the other: neither is numeric and the strings differ.
C5_Witness ==
  /\ pc = "done"
  /\ \E j \in BothRows \ NumericRows :
       /\ d1[diffs[j].variable].value_str = TokNaNish
       /\ d2[diffs[j].variable].value_str = TokInf
       /\ diffs[j].status = "different"

\* The line read last has the form name,token[,...] with a name without
\* parentheses.
PlainRecordLine ==
  /\ lineNo >= 1
  /\ ~Contains(line, "(")
  /\ Len(Split(line, ",")) >= 2
  /\ Strip(Split(line, ",")[1]) # <<>>

LineName == Strip(Split(line, ",")[1])
LineToken == Strip(Split(line, ",")[2])

\* C8: parse_variables_csv retains a record whose value token is no number:
\* its path is a key of the mapping with value_num None and value_str the
\* token, and a line that follows such a record is parsed like any other.
C8_UnparseableRetained ==
  (pc = "parse1" /\ PlainRecordLine) =>
    /\ ParseFloat(LineToken).kind = "err" =>
         /\ LineName \in DOMAIN d1
         /\ d1[LineName].value_num = None
         /\ d1[LineName].value_str = LineToken
         /\ d1[LineName].source_line = lineNo
    /\ (\E k \in DOMAIN d1 : d1[k].value_num = None /\ d1[k].source_line < lineNo)
         => /\ LineName \in DOMAIN d1
            /\ d1[LineName].value_str = LineToken
            /\ d1[LineName].source_line = lineNo

\* C8 witness: the record of NaNish read on line 1 is in the mapping with
\* no number, beside the record of the line read after it.
C8_Witness ==
  /\ pc = "parse1"
  /\ lineNo = 2
  /\ NameY \in DOMAIN d1 /\ NameX \in DOMAIN d1
  /\ d1[NameY] = [value_str |-> TokNaNish, value_num |-> None, lower |-> <<>>,
                  upper |-> <<>>, type |-> <<>>, units |-> <<>>,
                  source_line |-> 1]
  /\ d1[NameX].source_line = 2
  /\ d1[NameX].value_num = << 0 >>

\* Position i of s lies inside a pair of parentheses
InParens(s, i) ==
  Cardinality({j \in 1..(i - 1) : s[j] = "("}) >
    Cardinality({j \in 1..(i - 1) : s[j] = ")"})

\* The positions of the commas of s that separate fields: those outside
\* parentheses
FieldCommas(s) == {i \in 1..Len(s) : s[i] = "," /\ ~InParens(s, i)}

\* The line read last is malformed: it has a variable name and no value
\* field, or it is prefixed as a comment.
MalformedLine ==
  /\ lineNo >= 1
  /\ Strip(line) # <<>>
  /\ FieldCommas(Strip(line)) = {} \/ Strip(line)[1] = "#"

\* C11 as stated: parse_variables_csv skips every malformed line: a line
\* with a variable name and no value field, also when the name has
\* parentheses, and a comment-prefixed line leave no record in the mapping.
C11_MalformedSkipped ==
  (pc = "parse1" /\ MalformedLine) =>
    \A k \in DOMAIN d1 : d1[k].source_line # lineNo

\* The n-th comma of s that separates fields
NthComma(s, n) ==
  CHOOSE c \in FieldCommas(s) :
    Cardinality({d \in FieldCommas(s) : d < c}) = n - 1

\* The n-th field of s, stripped
Field(s, n) ==
  LET first == IF n = 1 THEN 1 ELSE NthComma(s, n - 1) + 1
      last  == IF n = Cardinality(FieldCommas(s)) + 1 THEN Len(s)
               ELSE NthComma(s, n) - 1
  IN  Strip(SubSeq(s, first, last))

\* The line read last has the form variable,value,lower,upper,type,units
SixFieldLine ==
  /\ lineNo >= 1
  /\ Cardinality(FieldCommas(Strip(line))) = 5
  /\ Field(Strip(line), 1) # <<>>
  /\ Strip(line)[1] # "#"

\* C12 as stated: for every line of the form
\* variable,value,lower,upper,type,units, also when the variable has a comma
\* inside parentheses, parse_variables_csv stores under the variable field a
\* record whose value_str, lower, upper, type and units are the five fields
\* that follow, in that order.
C12_SixFieldsStored ==
  (pc = "parse1" /\ SixFieldLine) =>
    LET ln == Strip(line) IN
    /\ Field(ln, 1) \in DOMAIN d1
    /\ d1[Field(ln, 1)].source_line = lineNo
    /\ d1[Field(ln, 1)].value_str = Field(ln, 2)
    /\ d1[Field(ln, 1)].lower = Field(ln, 3)
    /\ d1[Field(ln, 1)].upper = Field(ln, 4)
    /\ d1[Field(ln, 1)].type = Field(ln, 5)
    /\ d1[Field(ln, 1)].units = Field(ln, 6)

(***************************************************************************)
(* Properties of test.py                                                   *)
(***************************************************************************)
\* The indices of the rows of comps
FlowRows == 1..Len(comps)

FlowKeys == DOMAIN flow1 \cup DOMAIN flow2

\* The keys of each input that match the split pattern
Abs1 == {k \in DOMAIN flow1 : ContainsStr(k, StrABSORBENT)}
Abs2 == {k \in DOMAIN flow2 : ContainsStr(k, StrABSORBENT)}

\* The sum of the values of d over the keys ks
RECURSIVE SumOver(_, _)
SumOver(d, ks) ==
  IF ks = {} THEN 0
  ELSE LET k == CHOOSE x \in ks : TRUE IN d[k].val + SumOver(d, ks \ {k})

\* The first input has the two components and the second the single value
Split21 == Cardinality(Abs1) = 2 /\ Cardinality(Abs2) = 1
\* The second input has the two components and the first the single value
Split12 == Cardinality(Abs2) = 2 /\ Cardinality(Abs1) = 1

SingleKey == CHOOSE k \in (IF Split21 THEN Abs2 ELSE Abs1) : TRUE
SplitSum == IF Split21 THEN SumOver(flow1, Abs1) ELSE SumOver(flow2, Abs2)
SingleValue == IF Split21 THEN flow2[SingleKey].val ELSE flow1[SingleKey].val

\* The sum of the two components matches the single value within the
\* tolerance of the split rule (1e-8, relative and absolute).
SumMatches ==
  LET diff == Abs(SplitSum - SingleValue)
      mx   == Max2(Abs(SplitSum), Abs(SingleValue))
  IN  diff <= Max2(mx \div Pow10(8), Scale(1, -8))

\* C6: when one input has exactly two keys containing ABSORBENT and the
\* other exactly one, and the sum of the two matches the single value
\* within tolerance, the output has a single row for the three keys: it is
\* named by the single key and its two values are the sum and the single
\* value.
C6_SplitSummed ==
  (pc = "flow_done" /\ (Split21 \/ Split12) /\ SumMatches) =>
    /\ \E j \in FlowRows :
         /\ comps[j].name = SingleKey
         /\ comps[j].v1 =
              Some(FloatFin(IF Split21 THEN SplitSum ELSE SingleValue))
         /\ comps[j].v2 =
              Some(FloatFin(IF Split21 THEN SingleValue ELSE SplitSum))
    /\ Cardinality({j \in FlowRows : comps[j].name \in Abs1 \cup Abs2}) = 1

\* C6 witness: two components that sum to 5e-8 against a single value of
\* 5.5e-8, close but not equal, with a further key beside them.
C6_Witness ==
  /\ pc = "flow_done"
  /\ Split21 /\ SumMatches
  /\ SplitSum # SingleValue
  /\ Abs1 \cap Abs2 = {}
  /\ Len(comps) = 2

\* C7: when the split is detected but the sum does not match the single
\* value within tolerance, no key is consumed and no summed row is
\* produced: every key of keys(d1) \cup keys(d2) is compared on its own in
\* exactly one row.
C7_SplitMismatch ==
  (pc = "flow_done" /\ (Split21 \/ Split12) /\ ~SumMatches) =>
    /\ {comps[j].name : j \in FlowRows} = FlowKeys
    /\ Len(comps) = Cardinality(FlowKeys)
    /\ \A j \in FlowRows :
         /\ comps[j].note = ""
         /\ comps[j].v1 = Get(flow1, comps[j].name)
         /\ comps[j].v2 = Get(flow2, comps[j].name)

\* C7 witness: components 2e-8 and 7e-8 against a single value of 5e-8,
\* reported in three rows.
C7_Witness ==
  /\ pc = "flow_done"
  /\ Split12 /\ ~SumMatches
  /\ Abs1 \cap Abs2 = {}
  /\ Len(comps) = 3

(***************************************************************************)
(* Properties of both comparators                                          *)
(***************************************************************************)
\* The paths that are a key of one input only
OnlyOneApp == (DOMAIN d1 \ DOMAIN d2) \cup (DOMAIN d2 \ DOMAIN d1)
OnlyOneFlow == (DOMAIN flow1 \ DOMAIN flow2) \cup (DOMAIN flow2 \ DOMAIN flow1)

\* compare_dicts on a path of one input only: the status names the side and
\* abs_diff and rel_diff are empty.
OnlyOneSideApp ==
  pc = "done" =>
    \A j \in Rows :
      diffs[j].variable \in OnlyOneApp =>
        /\ diffs[j].status =
             IF diffs[j].variable \in DOMAIN d1 THEN "only_in_1" ELSE "only_in_2"
        /\ diffs[j].abs_diff = <<>>
        /\ diffs[j].rel_diff = <<>>

\* C4 as stated: for every path in only one of the two inputs no difference
\* is computed: compare_dicts reports only_in_1 or only_in_2 with empty
\* abs_diff and rel_diff, and build_comparisons reports abs_diff and
\* pct_diff as None.
C4_NoDiffOneSide ==
  /\ OnlyOneSideApp
  /\ pc = "flow_done" =>
       \A j \in FlowRows :
         comps[j].name \in OnlyOneFlow =>
           comps[j].abs_diff = None /\ comps[j].pct_diff = None

\* C4 amended: as C4, except that in build_comparisons the single key of a
\* 2-vs-1 split whose sum matched has a row with the sum as the value of
\* the side that lacks the key and with abs_diff and pct_diff computed.
C4_NoDiffOneSideUnlessSummed ==
  /\ OnlyOneSideApp
  /\ pc = "flow_done" =>
       \A j \in FlowRows :
         comps[j].name \in OnlyOneFlow =>
           IF (Split21 \/ Split12) /\ SumMatches /\ comps[j].name = SingleKey
           THEN /\ comps[j].abs_diff =
                     Some(FloatFin(IF Split21 THEN SplitSum - SingleValue
                                              ELSE SingleValue - SplitSum))
                /\ comps[j].pct_diff # None
           ELSE comps[j].abs_diff = None /\ comps[j].pct_diff = None

\* C4 witness: a matched split whose single key is in the second input
\* only, beside a key that is in one input only and has no difference.
C4_Witness ==
  /\ pc = "flow_done"
  /\ Split21 /\ SumMatches
  /\ SingleKey \in OnlyOneFlow
  /\ \E j \in FlowRows :
       /\ comps[j].name \in OnlyOneFlow \ {SingleKey}
       /\ comps[j].abs_diff = None


(***************************************************************************)
(* Properties of analyse.py                                                *)
(***************************************************************************)
\* The fields of line i of the run dump
RunParts(i) == ColonParts(Strip(runFile[i]))

\* Line i is a record line: not blank, no comment, at least 6 fields
RecordLine(i) ==
  /\ Strip(runFile[i]) # <<>>
  /\ Strip(runFile[i])[1] # "#"
  /\ Len(RunParts(i)) >= 6

\* Line i is a record line whose path passes the prefix filter
FilteredRecordLine(i) ==
  /\ RecordLine(i)
  /\ path_prefix = None \/ StartsWith(RunParts(i)[1], path_prefix)

\* The value field of record line i is a number for float()
ParseableValue(i) == ParseFloat(RunParts(i)[2]).kind # "err"

RunLineNos == 1..Len(runFile)

\* C9 as stated: a record line whose value field fails numeric parse is
\* kept in the output with a null value, a warning is emitted and the
\* following lines are processed, in read_all_values_from_txt and in
\* organize_values_to_folders.
C9_UnparseableKept ==
  /\ pc = "run_read" =>
       \A i \in RunLineNos :
         (FilteredRecordLine(i) /\ ~ParseableValue(i)) =>
           /\ RunParts(i)[1] \in DOMAIN values_dict
           /\ \E w \in 1..Len(warnings) : warnings[w][2] = RunParts(i)[1]
  /\ pc = "run_organized" =>
       \A i \in RunLineNos :
         (RecordLine(i) /\ ~ParseableValue(i)
            /\ Len(Split(RunParts(i)[1], ".")) >= 2) =>
           LET pp == Split(RunParts(i)[1], ".")
               folder == SubSeq(pp, 1, Len(pp) - 1)
           IN  /\ folder \in DOMAIN folder_data
               /\ \E r \in 1..Len(folder_data[folder]) :
                    folder_data[folder][r].Variable = pp[Len(pp)]

\* C10: in read_all_values_from_txt a line that is blank, starts with '#'
\* or has fewer than 6 fields gives no entry and does not stop the lines
\* after it from being processed: the keys of the mapping are exactly the
\* paths of the other lines that pass the prefix filter and have a
\* parseable value.
C10_SkippedLinesNoEntry ==
  pc = "run_read" =>
    DOMAIN values_dict =
      { RunParts(i)[1] :
          i \in {j \in RunLineNos : FilteredRecordLine(j) /\ ParseableValue(j)} }

\* C10 witness: a comment, a line of four fields and then a record line
\* that passes the prefix filter: the record line alone gives an entry.
C10_Witness ==
  /\ pc = "run_read"
  /\ Len(runFile) = 3
  /\ StartsWith(Strip(runFile[1]), << "#" >>)
  /\ Strip(runFile[2]) # <<>> /\ Len(RunParts(2)) = 4
  /\ path_prefix = << "P", "." >>
  /\ DOMAIN values_dict = { NamePa }

(***************************************************************************)
(* Properties of the three readers                                         *)
(***************************************************************************)
\* The line read last by read_flowsheet_csv is a record line: name,value
FlowRecordLine ==
  /\ lineNo >= 1
  /\ Strip(line) # <<>>
  /\ Len(Split(Strip(line), ",")) >= 2

FlowLineName == Split(Strip(line), ",")[1]
FlowLineToken == Split(Strip(line), ",")[2]

\* The last of the record lines of the run dump that pass the prefix filter
\* and hold path p
LastLineOf(p) ==
  CHOOSE i \in RunLineNos :
    /\ FilteredRecordLine(i) /\ RunParts(i)[1] = p
    /\ \A j \in RunLineNos :
         (FilteredRecordLine(j) /\ RunParts(j)[1] = p) => j <= i

RunPaths == { RunParts(i)[1] : i \in {j \in RunLineNos : FilteredRecordLine(j)} }

\* Last write wins in parse_variables_csv
LastWriteApp ==
  (pc = "parse1" /\ PlainRecordLine) =>
    /\ LineName \in DOMAIN d1
    /\ d1[LineName].source_line = lineNo
    /\ d1[LineName].value_str = LineToken
    /\ d1[LineName].value_num = ValueNum(LineToken)

\* Last write wins in read_flowsheet_csv.  The mapping holds numbers only:
\* when the last line of a name has no number, the name is no key holding
\* the number of an earlier line.
LastWriteFlow ==
  (pc = "flow_read1" /\ FlowRecordLine) =>
    IF ParseFloat(FlowLineToken).kind # "err"
    THEN /\ FlowLineName \in DOMAIN flow1
         /\ flow1[FlowLineName] = ParseFloat(FlowLineToken)
    ELSE FlowLineName \notin DOMAIN flow1

\* Last write wins in read_all_values_from_txt
LastWriteRun ==
  pc = "run_read" =>
    \A p \in RunPaths :
      LET tok == RunParts(LastLineOf(p))[2]
      IN  IF ParseFloat(tok).kind # "err"
          THEN p \in DOMAIN values_dict /\ values_dict[p] = ParseFloat(tok)
          ELSE p \notin DOMAIN values_dict

\* C13 as stated: each path is a unique key and, when the same path occurs
\* on several record lines, the mapping holds the record of the last such
\* line, in parse_variables_csv, read_all_values_from_txt and
\* read_flowsheet_csv, also when the value of that last line is unparseable
\* (the key then holds no number of an earlier line).
C13_LastWriteWins == LastWriteApp /\ LastWriteFlow /\ LastWriteRun

(***************************************************************************)
(* Properties of co2_equilibrium.py                                        *)
(***************************************************************************)
\* The digits n of the path of line i when it is Plant.Absorber.Stage(n)
StageDigits(i) ==
  PrefixIn(SubSeq(RunParts(i)[1], Len(StrPlantStage) + 1,
                  Len(RunParts(i)[1])), Digits)

\* Line i is a record line whose path is Plant.Absorber.Stage(n)<suffix>
StagePathLine(i, suffix) ==
  /\ RecordLine(i)
  /\ StageDigits(i) # <<>>
  /\ RunParts(i)[1] = StagePath(StageDigits(i), suffix)

\* Line i is such a line and its value is a number
StageRecordLine(i, suffix) ==
  /\ StagePathLine(i, suffix)
  /\ ParseFloat(RunParts(i)[2]).kind = "fin"

\* C14 as stated: a line whose path is Plant.Absorber.Stage(n).loading_CO2
\* followed by ' : value : lower : upper : type : units' yields an entry
\* under stage key n holding that value.
C14_StageEntry ==
  pc = "stage_done" =>
    \A i \in RunLineNos :
      StageRecordLine(i, SuffixShort) =>
        /\ DigitsToInt(StageDigits(i)) \in DOMAIN stage_data
        /\ \E v \in DOMAIN stage_data[DigitsToInt(StageDigits(i))] :
             stage_data[DigitsToInt(StageDigits(i))][v] =
               ParseFloat(RunParts(i)[2])

\* C14 amended: the path that is extracted is
\* Plant.Absorber.Stage(n).trans_prop.loading_CO2: the last line of that
\* path, when its value is a number, yields under stage key n the entry
\* loading_co2 holding that value; the path without trans_prop yields none.
C14_StageEntryTransProp ==
  pc = "stage_done" =>
    /\ \A i \in RunLineNos :
         ( /\ StageRecordLine(i, SuffixLoading)
           /\ \A j \in RunLineNos :
                (j > i /\ RecordLine(j)) => RunParts(j)[1] # RunParts(i)[1] )
         => /\ DigitsToInt(StageDigits(i)) \in DOMAIN stage_data
            /\ "loading_co2" \in DOMAIN stage_data[DigitsToInt(StageDigits(i))]
            /\ stage_data[DigitsToInt(StageDigits(i))]["loading_co2"] =
                 ParseFloat(RunParts(i)[2])
    /\ (\A i \in RunLineNos : ~StagePathLine(i, SuffixLoading)) =>
         \A n \in DOMAIN stage_data : "loading_co2" \notin DOMAIN stage_data[n]

\* C14 witness: the line of stage 3 with the value 2.45e-4 follows another
\* line of that path and is extracted under stage key 3.
C14_Witness ==
  /\ pc = "stage_done"
  /\ Len(runFile) = 2
  /\ StageRecordLine(2, SuffixLoading)
  /\ RunParts(1)[1] = RunParts(2)[1]
  /\ RunParts(1)[2] # RunParts(2)[2]
  /\ 3 \in DOMAIN stage_data
  /\ stage_data[3] = Put(EmptyDict, "loading_co2", [kind |-> "fin", val |-> 245000000])


(***************************************************************************)
(* Properties of the split into folders and the rebuild                    *)
(***************************************************************************)
\* The fields of a line of the run dump
RecordFields(raw) == StripAll(Split(Strip(raw), ":"))

\* A valid record line with a numeric value: six fields, no comment, a
\* value float() accepts
ValidRecordLine(raw) ==
  /\ Strip(raw) # << >>
  /\ ~StartsWith(Strip(raw), << "#" >>)
  /\ Len(RecordFields(raw)) >= 6
  /\ ParseFloat(RecordFields(raw)[2]).kind # "err"

\* The rebuilt record var is the record of the fields: the same path, the
\* same number as value, the same bounds, type and units
SameRecord(var, fields) ==
  /\ var.path = fields[1]
  /\ ParseFloat(var.value) = ParseFloat(fields[2])
  /\ var.lower_bound = fields[3]
  /\ var.upper_bound = fields[4]
  /\ var.type = fields[5]
  /\ var.units = fields[6]

\* C15: once the run dump is split into folders and rebuilt, every valid
\* record line with a numeric value has its record among the rebuilt ones
\* (as many times as the dump holds the line's record), and every rebuilt
\* record is the record of such a line.
C15_RoundTrip ==
  pc \in {"cat_read", "cat2_read"} =>
    /\ \A i \in DOMAIN runFile :
         ValidRecordLine(runFile[i]) =>
           Cardinality({k \in DOMAIN all_variables :
                          SameRecord(all_variables[k], RecordFields(runFile[i]))})
             = Cardinality({j \in DOMAIN runFile :
                              /\ ValidRecordLine(runFile[j])
                              /\ RecordFields(runFile[j])[1]
                                   = RecordFields(runFile[i])[1]
                              /\ ParseFloat(RecordFields(runFile[j])[2])
                                   = ParseFloat(RecordFields(runFile[i])[2])
                              /\ SubSeq(RecordFields(runFile[j]), 3, 6)
                                   = SubSeq(RecordFields(runFile[i]), 3, 6)})
    /\ \A k \in DOMAIN all_variables :
         \E i \in DOMAIN runFile :
           /\ ValidRecordLine(runFile[i])
           /\ SameRecord(all_variables[k], RecordFields(runFile[i]))

\* The fields of a row of the rebuilt dump: the text after the tab, split
\* at every " : "
RECURSIVE SplitSep(_)
SplitSep(s) ==
  IF FindStr(s, StrSep) = -1 THEN << s >>
  ELSE << SubSeq(s, 1, FindStr(s, StrSep)) >>
         \o SplitSep(SubSeq(s, FindStr(s, StrSep) + 4, Len(s)))

RowFields(k) == SplitSep(Tail(txt_rows[k]))

\* |a - b| <= 1e-15 * |b| for numbers held in units of 10^-UnitExp
WithinRel15(a, b) == Abs(a - b) <= (Abs(b) \div Pow10(8)) \div Pow10(7)

\* The rows of the rebuilt dump that have the path of line i of the run
\* dump, a valid record line which keeps its path through the round trip
RowsOfLine(i) ==
  {k \in DOMAIN txt_rows : RowFields(k)[1] = RecordFields(runFile[i])[1]}

IsFixedSci(out) ==
  LET t == IF out # << >> /\ out[1] = "-" THEN Tail(out) ELSE out
  IN  /\ Len(t) = 22
      /\ t[1] \in Digits
      /\ t[2] = "."
      /\ \A i \in 3..18 : t[i] \in Digits
      /\ t[19] = "e"
      /\ t[20] \in {"+", "-"}
      /\ t[21] \in Digits
      /\ t[22] \in Digits

ZeroText == << "0", "." >> \o [i \in 1..16 |-> "0"] \o << "e", "+", "0", "0" >>

\* out is what the fixed format asks for the token tok
Reserialized(tok, out) ==
  IF ParseFloat(tok).kind = "err" THEN out = tok
  ELSE /\ IsFixedSci(out)
       /\ (ParseFloat(tok).kind = "fin" /\ ParseFloat(tok).val = 0)
            => out = ZeroText

\* C18: every rebuilt record has a written row in which its value, lower
\* bound and upper bound are in the fixed scientific format (zero as
\* 0.0000000000000000e+00) when float() accepts them, and unchanged when
\* not.
C18_FixedFormat ==
  pc \in {"cat_written", "cat2_written"} =>
    \A v \in DOMAIN all_variables :
      \E k \in DOMAIN txt_rows :
        /\ RowFields(k)[1] = all_variables[v].path
        /\ Len(RowFields(k)) >= 4
        /\ Reserialized(all_variables[v].value, RowFields(k)[2])
        /\ Reserialized(all_variables[v].lower_bound, RowFields(k)[3])
        /\ Reserialized(all_variables[v].upper_bound, RowFields(k)[4])

\* The paths the ordering file lists, in its order
OrderList == load_variable_order(orderFile)

Listed(k) == \E i \in DOMAIN OrderList : OrderList[i] = RowFields(k)[1]

Rank(k) ==
  CHOOSE i \in DOMAIN OrderList :
    /\ OrderList[i] = RowFields(k)[1]
    /\ \A j \in DOMAIN OrderList : OrderList[j] = RowFields(k)[1] => j <= i

\* The rows are in the order of the ordering file: listed paths first and
\* by rank, unlisted paths after them and in ascending order of the path
RowsFollowOrderFile ==
  \A k, l \in DOMAIN txt_rows :
    k < l =>
      /\ Listed(l) => Listed(k)
      /\ (Listed(k) /\ Listed(l)) => Rank(k) <= Rank(l)
      /\ (~Listed(k) /\ ~Listed(l))
           => ~StrLess(RowFields(l)[1], RowFields(k)[1])

WorkingSteps ==
  {"flow_read1", "flow_read2", "flow_compare", "flow_done",
   "cat_read", "cat2_read", "cat_written", "cat2_written"}

\* The steps before a script has looked for its input
StartSteps == {"flow_start", "run_start", "stage_start"}

\* The steps of the mains of concatenate.py and concatenateV2.py
ConcatenateSteps ==
  {"cat_returned", "cat_prompt", "cat_read", "cat2_read", "cat_written",
   "cat2_written"}

\* The diagnostics of a missing input file / of a missing input folder
FileReports ==
  {"ERROR: file1 not found", "ERROR: file2 not found", "File not found",
   "ERROR: File not found"}

FolderReports ==
  {"Error: Folder not found.", "Error: Folder not found. Please try again.",
   "Input folder not found"}

C20_MissingRunFileAborts ==
  (pc = "cvap_done" /\ missing \cap {"run1", "run2"} # {}) =>
    /\ printed # {}
    /\ Output(<< >>, "cvap.csv") \notin created
    /\ Output(<< >>, "cvap.png") \notin created


(***************************************************************************)
(* Properties of the pipelines on malformed input                          *)
(***************************************************************************)
\* A line of the run dump that is no record: fewer than six fields
ShortRunLine(i) ==
  /\ ~SkippedLine(Strip(runFile[i]))
  /\ Len(RunParts(i)) < 6

\* C21: whatever lines an existing input file holds, parse_variables_csv,
\* compare_dicts, read_flowsheet_csv, build_comparisons and
\* read_all_values_from_txt return: no exception reaches their caller.
C21_NoExceptionPropagates ==
  /\ raised = {}
  /\ pc # "raised"

\* C21 witness: read_all_values_from_txt has returned from a run dump that
\* holds a line of fewer than six fields and a line whose value is no
\* number.
C21_Witness ==
  /\ pc = "run_read"
  /\ raised = {}
  /\ warnings # << >>
  /\ \E i \in RunLineNos : ShortRunLine(i)


(***************************************************************************)
(* Properties of extract_absorption_profiles_all_columns                   *)
(***************************************************************************)
\* The runs of digits name holds
DigitRuns(name) ==
  {t \in {SubSeq(name, i, j) : i \in 1..Len(name), j \in 1..Len(name)} :
     t # <<>> /\ AllDigits(t)}

\* name holds the text a(stage,column) of a profile record
IsProfileRecord(name, stage, column) ==
  \E a, b \in DigitRuns(name) :
    /\ ContainsStr(name, PatternName \o << "(" >> \o a \o << "," >> \o b
                          \o << ")" >>)
    /\ DigitsToInt(a) = stage
    /\ DigitsToInt(b) = column

\* Every value of the grouped view is the numeric value of a profile
\* record of vars_dict, under the column and the stage of its name.
OnlyProfileRecords(vars_dict, profile_data) ==
  /\ DOMAIN profile_data = 1..4
  /\ \A column \in 1..4 :
       \A stage \in DOMAIN profile_data[column] :
         /\ profile_data[column][stage] # None
         /\ \E name \in DOMAIN vars_dict :
              /\ IsProfileRecord(name, stage, column)
              /\ vars_dict[name].value_num = profile_data[column][stage]

\* C22: the grouped view {column -> {stage -> value}} that
\* extract_absorption_profiles_all_columns builds holds only records whose
\* name is a(stage,column) with a column of 1..4 and a numeric value, and
\* building it leaves the flat mappings d1 and d2 as they were.
C22_OnlyMatchedRecordsGrouped ==
  /\ [](pc \in {"compare", "done"} =>
          /\ OnlyProfileRecords(d1, profiles1)
          /\ OnlyProfileRecords(d2, profiles2))
  /\ [][pc = "plot" => (d1' = d1 /\ d2' = d2)]_vars

\* A matched record is in the view, beside a record of column 5 that is
\* not, and a matched record without a number is left out of the other.
C22_Witness ==
  /\ pc = "compare"
  /\ NameProfile \in DOMAIN d1
  /\ NameProfile5 \in DOMAIN d1
  /\ d1[NameProfile5].value_num # None
  /\ DOMAIN profiles1[4] = {1}
  /\ profiles1[4][1] = d1[NameProfile].value_num
  /\ \A column \in 1..3 : profiles1[column] = EmptyDict
  /\ NameProfile \in DOMAIN d2
  /\ profiles2[4] # EmptyDict

(***************************************************************************)
(* Properties of build_comparisons                                         *)
(***************************************************************************)
\* The percentage difference of row t is a number
PctFinite(t) ==
  t.pct_diff # None /\ ~t.pct_diff[1].inf /\ ~t.pct_diff[1].nan

\* The percentage difference of row t is missing or infinite
PctMissingOrInfinite(t) == t.pct_diff = None \/ t.pct_diff[1].inf

\* |pct_diff| of a row whose percentage difference is a number
AbsPct(t) == << Abs(t.pct_diff[1].q[1]), t.pct_diff[1].q[2] >>

\* C23: the rows build_comparisons returns are in descending order of the
\* absolute percentage difference, and no row whose percentage difference
\* is missing or infinite stands before a row whose percentage difference
\* is a number.
C23_SortedFiniteFirst ==
  pc = "flow_done" =>
    \A i, j \in DOMAIN comps :
      i < j =>
        /\ (PctFinite(comps[i]) /\ PctFinite(comps[j])
               => ~RatLess(AbsPct(comps[i]), AbsPct(comps[j])))
        /\ (PctMissingOrInfinite(comps[i]) => ~PctFinite(comps[j]))

(***************************************************************************)
(* Properties of compute_differences                                       *)
(***************************************************************************)
\* q is the fraction n / d of integers, d not zero, in lowest terms
IsFraction(q, n, d) ==
  /\ q[2] > 0
  /\ d % q[2] = 0
  /\ (IF d > 0 THEN d \div q[2] ELSE -((-d) \div q[2])) * q[1] = n

\* abs_diff and pct_diff are the differences of the numbers x1 and x2, in
\* units of 10^-UnitExp: x1 - x2 and (x1 - x2) / x2 * 100, and 0 or
\* +infinity in the place of the latter when |x2| < 1e-12.
IsDifferences(abs_diff, pct_diff, x1, x2) ==
  /\ abs_diff = x1 - x2
  /\ IF Abs(x2) < Scale(1, -12)
     THEN pct_diff = (IF x1 = x2 THEN Fin(<< 0, 1 >>) ELSE Inf)
     ELSE /\ ~pct_diff.inf
          /\ ~pct_diff.nan
          /\ IsFraction(pct_diff.q, (x1 - x2) * 100, x2)

\* The same of two floats of which one is an infinity or nan: the
\* arithmetic of IEEE 754.
IsFloatDifferences(abs_diff, pct_diff, x1, x2) ==
  /\ abs_diff.kind = (IF x1.kind = "nan" \/ x2.kind = "nan" THEN "nan"
                      ELSE IF x1.kind = "inf" /\ x2.kind = "inf"
                              /\ x1.val = x2.val THEN "nan"
                      ELSE "inf")
  /\ abs_diff.kind = "inf" =>
       abs_diff.val = (IF x1.kind = "inf" THEN x1.val ELSE -x2.val)
  /\ pct_diff =
       (IF x2.kind = "fin" /\ Abs(x2.val) < Scale(1, -12) THEN Inf
        ELSE IF x1.kind = "nan" \/ x2.kind = "nan" \/ x2.kind = "inf" THEN NaN
        ELSE IF (x1.val > 0) = (x2.val > 0) THEN Inf
        ELSE NegInf)

\* The row holds the differences of its two values, None when one is
\* missing.
RowDifferences(v1, v2, abs_diff, pct_diff) ==
  /\ (abs_diff = None /\ pct_diff = None) <=> (v1 = None \/ v2 = None)
  /\ abs_diff = None <=> pct_diff = None
  /\ abs_diff # None =>
       IsDifferences(abs_diff[1], pct_diff[1], v1[1], v2[1])

\* The same for a row of floats
FloatRowDifferences(v1, v2, abs_diff, pct_diff) ==
  /\ (abs_diff = None /\ pct_diff = None) <=> (v1 = None \/ v2 = None)
  /\ abs_diff = None <=> pct_diff = None
  /\ abs_diff # None =>
       IF v1[1].kind = "fin" /\ v2[1].kind = "fin"
       THEN /\ abs_diff[1].kind = "fin"
            /\ IsDifferences(abs_diff[1].val, pct_diff[1], v1[1].val, v2[1].val)
       ELSE IsFloatDifferences(abs_diff[1], pct_diff[1], v1[1], v2[1])

\* C24: compute_differences(v1, v2) is (None, None) exactly when v1 or v2
\* is None, and otherwise v1 - v2 and (v1 - v2) / v2 * 100, the latter
\* replaced by 0 when v1 = v2 and by +infinity otherwise where
\* |v2| < 1e-12; every row of build_comparisons holds the same two
\* quantities of its values.
C24_DifferencesAsDocumented ==
  /\ pc = "cvap_done" =>
       \A i \in DOMAIN cvap_rows :
         RowDifferences(cvap_rows[i].file1_value, cvap_rows[i].file2_value,
                        cvap_rows[i].abs_diff, cvap_rows[i].pct_diff)
  /\ pc = "flow_done" =>
       \A i \in DOMAIN comps :
         FloatRowDifferences(comps[i].v1, comps[i].v2,
                             comps[i].abs_diff, comps[i].pct_diff)

\* cvap.csv holds a row without differences and a row whose second value
\* is zero and whose first is not.
C24_Witness ==
  /\ pc = "cvap_done"
  /\ \E i \in DOMAIN cvap_rows : cvap_rows[i].abs_diff = None
  /\ \E i \in DOMAIN cvap_rows :
       /\ cvap_rows[i].file2_value = Some(0)
       /\ cvap_rows[i].abs_diff # None
       /\ cvap_rows[i].abs_diff[1] > 0
       /\ cvap_rows[i].pct_diff = Some(Inf)

(***************************************************************************)
(* Properties of compute_composite_values                                  *)
(***************************************************************************)
\* values[names[1]] + ... + values[names[n]], all of them numbers
RECURSIVE SumOfFirst(_, _, _)
SumOfFirst(values, names, n) ==
  IF n = 0 THEN 0 ELSE SumOfFirst(values, names, n - 1) + values[names[n]][1]

\* The row of cvap.csv of composite rule k
CompositeRow(k) == cvap_rows[Len(VARIABLES_TO_COMPARE) + k]

\* C25: compute_composite_values gives one entry for each composite rule:
\* of file 1 the sum of all the summed keys when each has a value and None
\* when one is missing, of file 2 the value of the single key, None when
\* it is missing.
C25_CompositeValues ==
  pc = "cvap_done" =>
    /\ Len(cvap_rows) = Len(VARIABLES_TO_COMPARE) + Len(COMPOSITE_COMPARISONS)
    /\ \A k \in DOMAIN COMPOSITE_COMPARISONS :
         /\ CompositeRow(k).variable = COMPOSITE_COMPARISONS[k].name
         /\ CompositeRow(k).file1_value =
              (IF \A i \in DOMAIN COMPOSITE_COMPARISONS[k].file1_vars :
                    values1[COMPOSITE_COMPARISONS[k].file1_vars[i]] # None
               THEN Some(SumOfFirst(values1, COMPOSITE_COMPARISONS[k].file1_vars,
                                    Len(COMPOSITE_COMPARISONS[k].file1_vars)))
               ELSE None)
         /\ CompositeRow(k).file2_value =
              values2[COMPOSITE_COMPARISONS[k].file2_var]

\* Both summands of the first rule have a value in file 1, and so has its
\* single key in file 2; the other rules have none.
C25_Witness ==
  /\ pc = "cvap_done"
  /\ values1[StageVar(StrCvapI, NameAbs1)] # None
  /\ values1[StageVar(StrCvapI, NameAbs2)] # None
  /\ CompositeRow(1).file1_value =
       Some(values1[StageVar(StrCvapI, NameAbs1)][1]
            + values1[StageVar(StrCvapI, NameAbs2)][1])
  /\ CompositeRow(1).file2_value # None
  /\ CompositeRow(2).file1_value = None
  /\ CompositeRow(2).file2_value = None

(***************************************************************************)
(* Properties of the rows and counts of compare_dicts                      *)
(***************************************************************************)
\* C26: every row of compare_dicts has one of the four statuses, its
\* in_tolerance is 'true' exactly when the status is equal_within_tol, and
\* the four counts add up to the number of rows.
C26_StatusesAndCounts ==
  pc = "done" =>
    /\ \A j \in DOMAIN diffs :
         /\ diffs[j].status \in
              {"only_in_1", "only_in_2", "equal_within_tol", "different"}
         /\ diffs[j].in_tolerance \in {"true", "false"}
         /\ diffs[j].in_tolerance = "true"
              <=> diffs[j].status = "equal_within_tol"
    /\ DOMAIN counts =
         {"only_in_1", "only_in_2", "equal_within_tol", "different"}
    /\ counts["only_in_1"] + counts["only_in_2"]
         + counts["equal_within_tol"] + counts["different"] = Len(diffs)

\* Rows of three statuses: one only in file 1, one only in file 2 and one
\* equal as strings
C26_Witness ==
  /\ pc = "done"
  /\ Cardinality({diffs[j].status : j \in DOMAIN diffs}) >= 3
  /\ \E j \in DOMAIN diffs :
       /\ diffs[j].status = "equal_within_tol"
       /\ diffs[j].in_tolerance = "true"
       /\ diffs[j].abs_diff = <<>>
  /\ counts["only_in_1"] = 1
  /\ counts["only_in_2"] = 1

(***************************************************************************)
(* Symmetry of compare_dicts                                               *)
(***************************************************************************)
\* The status of a row with only_in_1 and only_in_2 exchanged
Exchanged(status) ==
  IF status = "only_in_1" THEN "only_in_2"
  ELSE IF status = "only_in_2" THEN "only_in_1"
  ELSE status

\* C27: compare_dicts(d2, d1) returns rows of the same paths in the same
\* order as compare_dicts(d1, d2), with the same abs_diff, rel_diff and
\* in_tolerance, and with the same status but for only_in_1 and only_in_2,
\* which are exchanged.
C27_Symmetric ==
  pc = "done_swapped" =>
    /\ Len(swapped) = Len(diffs)
    /\ \A j \in DOMAIN diffs :
         /\ swapped[j].variable = diffs[j].variable
         /\ swapped[j].abs_diff = diffs[j].abs_diff
         /\ swapped[j].rel_diff = diffs[j].rel_diff
         /\ swapped[j].in_tolerance = diffs[j].in_tolerance
         /\ swapped[j].status = Exchanged(diffs[j].status)

\* Both calls have returned a row of a path of file 1 alone and a row of
\* two different numbers that are not both zero.
C27_Witness ==
  /\ pc = "done_swapped"
  /\ \E j \in DOMAIN diffs :
       diffs[j].status = "only_in_1" /\ swapped[j].status = "only_in_2"
  /\ \E j \in DOMAIN diffs :
       /\ diffs[j].abs_diff # <<>>
       /\ diffs[j].abs_diff[1] # 0
       /\ diffs[j].value1 # Tok0
       /\ diffs[j].value2 # Tok0

(***************************************************************************)
(* Properties of the extractors of cvap.py                                 *)
(***************************************************************************)
\* C28: for every run file and every variable of the list,
\* extract_all_variables(path, variables)[var] is what
\* extract_variable_from_run(path, var) returns.
C28_ExtractorsAgree ==
  pc = "cvap_each" =>
    \A var \in AllUniqueVariables :
      /\ values1[var] = single1[var]
      /\ values2[var] = single2[var]

(***************************************************************************)
(* Properties of organize_specific_path                                    *)
(***************************************************************************)
\* The rows of folder whose path starts with prefix, in their order
RECURSIVE RowsOfPrefix(_, _, _)
RowsOfPrefix(rows, folder, prefix) ==
  IF rows = << >> THEN << >>
  ELSE (IF StartsWith(Join(Append(folder, Head(rows).Variable), << "." >>),
                      prefix)
        THEN << Head(rows) >> ELSE << >>)
       \o RowsOfPrefix(Tail(rows), folder, prefix)

\* The rows organize_values_to_folders has written for the paths that
\* start with prefix, by folder
WrittenForPrefix(prefix) ==
  [f \in {g \in DOMAIN folder_data :
            RowsOfPrefix(folder_data[g], g, prefix) # << >>} |->
     RowsOfPrefix(folder_data[f], f, prefix)]

\* C29: organize_specific_path(file, prefix, out) writes the rows that
\* organize_values_to_folders(file, out) writes for the paths starting
\* with prefix: the same folders, with the same rows in each.
C29_SpecificWritesTheSame ==
  pc = "run_specific" => specific_data = WrittenForPrefix(path_prefix)

(***************************************************************************)
(* Properties of write_txt_file                                            *)
(***************************************************************************)
\* The paths of the records and of the rows written
WrittenPaths ==
  {all_variables[i].path : i \in DOMAIN all_variables}
    \cup {RowFields(k)[1] : k \in DOMAIN txt_rows}

\* C30: write_txt_file and write_reconstructed write one row for every
\* record: every path stands on as many rows as records have it, and the
\* number of variables stated in the header is the number of rows written,
\* with or without an ordering file.
C30_OneRowPerRecord ==
  pc \in {"cat_written", "cat2_written"} =>
    /\ Len(txt_rows) = Len(all_variables)
    /\ header_count = Some(Len(txt_rows))
    /\ \A path \in WrittenPaths :
         Cardinality({k \in DOMAIN txt_rows : RowFields(k)[1] = path})
           = Cardinality({i \in DOMAIN all_variables :
                            all_variables[i].path = path})

\* write_txt_file has written, by an ordering file that lists some of the
\* paths, the rows of two records in the other order than they were read
\* in, under a header that states two variables.
C30_Witness ==
  /\ pc = "cat_written"
  /\ load_variable_order(orderFile) # << >>
  /\ Len(all_variables) = 2
  /\ header_count = Some(2)
  /\ RowFields(1)[1] = all_variables[2].path
  /\ RowFields(2)[1] = all_variables[1].path
  /\ all_variables[1].path # all_variables[2].path
=============================================================================
